---- MODULE Spec2Model ----
(***************************************************************************)
(* Verification model of dtn7-plus-rs: the short-message (sms), discussion *)
(* post (news) and location codecs that ride in the payload / extension    *)
(* blocks of a bp7 bundle.                                                 *)
(*                                                                         *)
(* Values.  A byte is a number 0..255; a Rust String / Vec<u8> is a        *)
(* sequence of bytes.  A CBOR document is modelled at the level of its     *)
(* data items: <<"uint", n>>, <<"bool", b>>, <<"bytes", s>>, <<"text", s>>,*)
(* <<"null">>, <<"array", items>>, <<"map", pairs>>, <<"f16", x>>,         *)
(* <<"f32", x>>; <<"invalid">> stands for bytes that are no CBOR at all.   *)
(***************************************************************************)
EXTENDS Integers, Sequences, FiniteSets, TLC

VARIABLES
    bundle,    \* validation: the raw bp7 bundle handed to try_from
    wrapS,     \* validation: result of SMSBundle::try_from(bundle)
    wrapN,     \* validation: result of NewsBundle::try_from(bundle)
    rewrap,    \* validation: results of wrapping a second time
    posts,     \* threads: the NewsBundle envelopes that exist, oldest first
    lastTs,    \* threads: bp7's process-wide last creation timestamp <<time, seq>>
    now,       \* threads: the wall clock read by CreationTimestamp::now()
    panicked,  \* threads: TRUE once a factory call has panicked
    txt,       \* text round trip: the inputs and the values read back
    locv,      \* location codec: value, encoding and decoding
    sb,        \* builders: the SmsBuilder under construction
    nb,        \* builders: the NewsBuilder under construction
    built,     \* builders: result of the last build()
    reads,     \* accessors: the envelope held and the calls made on it
    gps        \* GPS receiver: position in main, messages sent and to come

vars ==
    <<bundle, wrapS, wrapN, rewrap, posts, lastTs, now, panicked, txt, locv, sb, nb, built,
      reads, gps>>

(***************************************************************************)
(* Bounds of the model.                                                    *)
(***************************************************************************)
MaxRecvLen == 2      \* most bytes of text in a record received from the network
MaxTextLen == 3      \* longest text handed to a builder
MaxPosts == 3        \* posts that may exist at once
MaxTime == 1         \* last clock reading
MaxTags == 1         \* tags added to a builder with tag()
MaxAddrLen == 1      \* longest address of a Human or WFW location
MaxRadius == 1       \* largest radius of a FenceEllipse
MaxBlockNo == 1      \* largest block number given to new_location_block
MaxReads == 3        \* accessor calls made on one envelope
MaxMsgs == 2         \* messages read in the loop of the GPS receiver
MaxFields == 3       \* most elements after the discriminant in a received sequence

Min(a, b) == IF a < b THEN a ELSE b

SetMax(S) == CHOOSE x \in S : \A y \in S : y <= x

RECURSIVE SeqsUpTo(_, _)
SeqsUpTo(S, n) ==
    IF n = 0 THEN {<<>>}
    ELSE LET shorter == SeqsUpTo(S, n - 1)
         IN shorter \cup {Append(s, x) : s \in {t \in shorter : Len(t) = n - 1}, x \in S}

NoneV == <<"none">>
Some(x) == <<"some", x>>
IsSome(o) == o[1] = "some"
Unwrap(o) == o[2]

(***************************************************************************)
(* UTF-8: String::from_utf8 and String::from_utf8_lossy.                   *)
(***************************************************************************)
IsCont(bs, i) == i <= Len(bs) /\ bs[i] >= 128 /\ bs[i] <= 191

\* second byte of a 3- or 4-byte sequence: the ranges that exclude
\* overlong forms, surrogates and code points above U+10FFFF
SecondOk(bs, i) ==
    /\ i + 1 <= Len(bs)
    /\ LET b == bs[i]
           c == bs[i + 1]
       IN CASE b = 224 -> c >= 160 /\ c <= 191
            [] b = 237 -> c >= 128 /\ c <= 159
            [] b = 240 -> c >= 144 /\ c <= 191
            [] b = 244 -> c >= 128 /\ c <= 143
            [] OTHER -> c >= 128 /\ c <= 191

\* length of the well-formed scalar value starting at bs[i], 0 if there is none
Utf8CharLen(bs, i) ==
    LET b == bs[i]
    IN IF b < 128 THEN 1
       ELSE IF b >= 194 /\ b <= 223 THEN (IF IsCont(bs, i + 1) THEN 2 ELSE 0)
       ELSE IF b >= 224 /\ b <= 239
            THEN (IF SecondOk(bs, i) /\ IsCont(bs, i + 2) THEN 3 ELSE 0)
       ELSE IF b >= 240 /\ b <= 244
            THEN (IF SecondOk(bs, i) /\ IsCont(bs, i + 2) /\ IsCont(bs, i + 3)
                  THEN 4 ELSE 0)
       ELSE 0

\* bytes of the maximal ill-formed subpart starting at bs[i]
Utf8BadLen(bs, i) ==
    LET b == bs[i]
    IN IF b >= 224 /\ b <= 239 /\ SecondOk(bs, i) THEN 2
       ELSE IF b >= 240 /\ b <= 244 /\ SecondOk(bs, i)
            THEN (IF IsCont(bs, i + 2) THEN 3 ELSE 2)
       ELSE 1

RECURSIVE Utf8ValidFrom(_, _)
Utf8ValidFrom(bs, i) ==
    IF i > Len(bs) THEN TRUE
    ELSE LET n == Utf8CharLen(bs, i)
         IN IF n = 0 THEN FALSE ELSE Utf8ValidFrom(bs, i + n)

from_utf8_ok(bs) == Utf8ValidFrom(bs, 1)

ReplacementChar == <<239, 191, 189>>

RECURSIVE LossyFrom(_, _, _)
LossyFrom(bs, i, out) ==
    IF i > Len(bs) THEN out
    ELSE LET n == Utf8CharLen(bs, i)
         IN IF n > 0 THEN LossyFrom(bs, i + n, out \o SubSeq(bs, i, i + n - 1))
            ELSE LossyFrom(bs, i + Utf8BadLen(bs, i), out \o ReplacementChar)

from_utf8_lossy(bs) == LossyFrom(bs, 1, <<>>)

(***************************************************************************)
(* smaz: the static-dictionary coder behind smaz_compress and              *)
(* smaz_decompress.  Codebook is the part of smaz's table whose entries    *)
(* are made of the letters 't' (116) and 'h' (104): code 3 is "t", code 17 *)
(* is "th", code 18 is "h".  Byte 254 introduces one verbatim byte, byte   *)
(* 255 a length byte n and n+1 verbatim bytes.                             *)
(***************************************************************************)
CodebookCodes == {3, 17, 18}

Codebook == [c \in CodebookCodes |->
                CASE c = 3 -> <<116>>
                  [] c = 17 -> <<116, 104>>
                  [] c = 18 -> <<104>>]

FlushVerbatim(verbatim) ==
    IF Len(verbatim) > 1 THEN <<255, Len(verbatim) - 1>> \o verbatim
    ELSE <<254>> \o verbatim

RECURSIVE CompressFrom(_, _, _, _)
CompressFrom(input, i, verbatim, out) ==
    IF i > Len(input)
    THEN (IF verbatim # <<>> THEN out \o FlushVerbatim(verbatim) ELSE out)
    ELSE LET maxLen == Min(7, Len(input) - i + 1)
             hits == {l \in 1..maxLen :
                        \E c \in CodebookCodes : Codebook[c] = SubSeq(input, i, i + l - 1)}
         IN IF hits # {}
            THEN LET l == SetMax(hits)
                     code == CHOOSE c \in CodebookCodes :
                                Codebook[c] = SubSeq(input, i, i + l - 1)
                     flushed == IF verbatim # <<>> THEN out \o FlushVerbatim(verbatim)
                                ELSE out
                 IN CompressFrom(input, i + l, <<>>, Append(flushed, code))
            ELSE LET v == Append(verbatim, input[i])
                 IN IF Len(v) = 256
                    THEN CompressFrom(input, i + 1, <<>>, out \o FlushVerbatim(v))
                    ELSE CompressFrom(input, i + 1, v, out)

smaz_compress(indata) == CompressFrom(indata, 1, <<>>, <<>>)

RECURSIVE DecompressFrom(_, _, _)
DecompressFrom(input, i, out) ==
    IF i > Len(input) THEN [ok |-> TRUE, bytes |-> out]
    ELSE IF input[i] = 254
         THEN (IF i + 1 > Len(input) THEN [ok |-> FALSE, bytes |-> <<>>]
               ELSE DecompressFrom(input, i + 2, Append(out, input[i + 1])))
    ELSE IF input[i] = 255
         THEN (IF i + 1 > Len(input) \/ i + 2 + input[i + 1] > Len(input)
               THEN [ok |-> FALSE, bytes |-> <<>>]
               ELSE DecompressFrom(input, i + 3 + input[i + 1],
                        out \o SubSeq(input, i + 2, i + 2 + input[i + 1])))
    ELSE DecompressFrom(input, i + 1, out \o Codebook[input[i]])

smaz_decompress(indata) == DecompressFrom(indata, 1, <<>>)

(***************************************************************************)
(* bp7 endpoint identifiers.  t is the variant: "none" is dtn:none, "dtn"  *)
(* is dtn://<name>/<svc>, "ipn" is ipn:<num>.<svcnum>.  Names are byte     *)
(* strings, as everywhere.                                                 *)
(***************************************************************************)
S_sms == <<115, 109, 115>>              \* "sms"
S_tsms == <<126, 115, 109, 115>>         \* "~sms"
S_tnews == <<126, 110, 101, 119, 115>>   \* "~news"
S_news == <<110, 101, 119, 115>>         \* "news"
N_node1 == <<110, 49>>                   \* "n1"
N_node2 == <<110, 50>>                   \* "n2"
N_group == <<103>>                       \* "g"

DtnNone == [t |-> "none", name |-> <<>>, svc |-> <<>>, num |-> 0, svcnum |-> 0]
with_dtn(name, svc) == [t |-> "dtn", name |-> name, svc |-> svc, num |-> 0, svcnum |-> 0]
with_ipn(num, svcnum) == [t |-> "ipn", name |-> <<>>, svc |-> <<>>, num |-> num, svcnum |-> svcnum]

scheme(eid) == IF eid.t = "ipn" THEN "ipn" ELSE "dtn"

\* DtnAddress::service_name(): None when the address has no service part
service_name(eid) == IF eid.svc = <<>> THEN NoneV ELSE Some(eid.svc)

\* a dtn service whose name starts with '~' names a group
is_non_singleton(eid) == eid.t = "dtn" /\ eid.svc # <<>> /\ eid.svc[1] = 126

RECURSIVE Decimal(_)
Decimal(n) == IF n < 10 THEN <<48 + n>> ELSE Append(Decimal(n \div 10), 48 + (n % 10))

\* EndpointID::node()
node(eid) ==
    CASE eid.t = "none" -> NoneV
      [] eid.t = "dtn" -> Some(eid.name)
      [] eid.t = "ipn" -> Some(Decimal(eid.num))

\* Display for EndpointID
EidString(eid) ==
    CASE eid.t = "none" -> <<100, 116, 110, 58, 110, 111, 110, 101>>
      [] eid.t = "dtn" -> <<100, 116, 110, 58, 47, 47>> \o eid.name
                            \o (IF eid.svc = <<>> THEN <<>> ELSE <<47>> \o eid.svc)
      [] eid.t = "ipn" -> <<105, 112, 110, 58>> \o Decimal(eid.num) \o <<46>>
                            \o Decimal(eid.svcnum)

(***************************************************************************)
(* A bundle, as far as this crate reads it: primary.source,                *)
(* primary.destination, primary.creation_timestamp (<<time, seq>>) and the *)
(* payload block's data (NoneV when the bundle has no payload block).      *)
(***************************************************************************)
Bundle_new(src, dst, ts, payload) ==
    [source |-> src, destination |-> dst, ts |-> ts, payload |-> payload]

\* Bundle::id(): "<source>-<time>-<seq>"
Bundle_id(b) == EidString(b.source) \o <<45>> \o Decimal(b.ts[1]) \o <<45>> \o Decimal(b.ts[2])

(***************************************************************************)
(* serde_cbor of the payload records.  A struct is written as a map from   *)
(* field names to values; reading ignores unknown keys, rejects a          *)
(* duplicated or (non-Option) missing key and a value of the wrong shape.  *)
(***************************************************************************)
MapCount(m, k) == Cardinality({i \in 1..Len(m) : m[i][1] = k})
MapGet(m, k) == m[CHOOSE i \in 1..Len(m) : m[i][1] = k][2]
MapKeysOk(m, required, optional) ==
    /\ \A k \in required : MapCount(m, k) = 1
    /\ \A k \in optional : MapCount(m, k) <= 1

IsBool(it) == it[1] = "bool"
\* serde_bytes reads a byte string or a text string into a Vec<u8>
IsBytes(it) == it[1] = "bytes" \/ (it[1] = "text" /\ from_utf8_ok(it[2]))
IsText(it) == it[1] = "text" /\ from_utf8_ok(it[2])
IsU8Array(it) == it[1] = "array" /\ \A i \in 1..Len(it[2]) :
                     it[2][i][1] = "uint" /\ it[2][i][2] < 256
IsTextArray(it) == it[1] = "array" /\ \A i \in 1..Len(it[2]) : IsText(it[2][i])
IsOptU8Array(it) == it[1] = "null" \/ IsU8Array(it)
IsOptText(it) == it[1] = "null" \/ IsText(it)

OptBytesToCbor(o) ==
    IF IsSome(o) THEN <<"array", [i \in 1..Len(Unwrap(o)) |-> <<"uint", Unwrap(o)[i]>>]>>
    ELSE <<"null">>
OptBytesFromCbor(it) ==
    IF it[1] = "null" THEN NoneV ELSE Some([i \in 1..Len(it[2]) |-> it[2][i][2]])
OptTextToCbor(o) == IF IsSome(o) THEN <<"text", Unwrap(o)>> ELSE <<"null">>
OptTextFromCbor(it) == IF it[1] = "null" THEN NoneV ELSE Some(it[2])

\* a Uuid travels as its 16 bytes; the model's uuids are 0 (nil) .. 255
UuidBytes(u) == [i \in 1..16 |-> IF i = 16 THEN u ELSE 0]
IsUuid(it) == it[1] = "bytes" /\ Len(it[2]) = 16
UuidFromBytes(bs) == bs[16]

DefaultSMS == [comp |-> FALSE, enc |-> FALSE, msg |-> <<>>, sig |-> NoneV]

SMS_to_cbor(sms) ==
    <<"map", << <<"comp", <<"bool", sms.comp>> >>,
                <<"enc", <<"bool", sms.enc>> >>,
                <<"msg", <<"bytes", sms.msg>> >>,
                <<"sig", OptBytesToCbor(sms.sig)>> >> >>

SMS_from_cbor(it) ==
    IF it[1] # "map" THEN [ok |-> FALSE, val |-> DefaultSMS]
    ELSE LET m == it[2]
             comp == MapGet(m, "comp")
             enc == MapGet(m, "enc")
             msg == MapGet(m, "msg")
             hasSig == MapCount(m, "sig") = 1
             sig == MapGet(m, "sig")
         IN IF /\ MapKeysOk(m, {"comp", "enc", "msg"}, {"sig"})
               /\ IsBool(comp)
               /\ IsBool(enc)
               /\ IsBytes(msg)
               /\ (hasSig => IsOptU8Array(sig))
            THEN [ok |-> TRUE,
                  val |-> [comp |-> comp[2],
                           enc |-> enc[2],
                           msg |-> msg[2],
                           sig |-> IF hasSig THEN OptBytesFromCbor(sig) ELSE NoneV]]
            ELSE [ok |-> FALSE, val |-> DefaultSMS]

DefaultNews == [comp |-> FALSE, enc |-> FALSE, topic |-> <<>>, tid |-> 0,
                references |-> NoneV, tags |-> <<>>, msg |-> <<>>, sig |-> NoneV]

News_to_cbor(news) ==
    <<"map", << <<"comp", <<"bool", news.comp>> >>,
                <<"enc", <<"bool", news.enc>> >>,
                <<"topic", <<"bytes", news.topic>> >>,
                <<"tid", <<"bytes", UuidBytes(news.tid)>> >>,
                <<"references", OptTextToCbor(news.references)>>,
                <<"tags", <<"array", [i \in 1..Len(news.tags) |-> <<"text", news.tags[i]>>]>> >>,
                <<"msg", <<"bytes", news.msg>> >>,
                <<"sig", OptBytesToCbor(news.sig)>> >> >>

News_from_cbor(it) ==
    IF it[1] # "map" THEN [ok |-> FALSE, val |-> DefaultNews]
    ELSE LET m == it[2]
             comp == MapGet(m, "comp")
             enc == MapGet(m, "enc")
             topic == MapGet(m, "topic")
             tid == MapGet(m, "tid")
             tags == MapGet(m, "tags")
             msg == MapGet(m, "msg")
             hasRef == MapCount(m, "references") = 1
             ref == MapGet(m, "references")
             hasSig == MapCount(m, "sig") = 1
             sig == MapGet(m, "sig")
         IN IF /\ MapKeysOk(m, {"comp", "enc", "topic", "tid", "tags", "msg"},
                             {"references", "sig"})
               /\ IsBool(comp)
               /\ IsBool(enc)
               /\ IsBytes(topic)
               /\ IsUuid(tid)
               /\ IsTextArray(tags)
               /\ IsBytes(msg)
               /\ (hasRef => IsOptText(ref))
               /\ (hasSig => IsOptU8Array(sig))
            THEN [ok |-> TRUE,
                  val |-> [comp |-> comp[2],
                           enc |-> enc[2],
                           topic |-> topic[2],
                           tid |-> UuidFromBytes(tid[2]),
                           references |-> IF hasRef THEN OptTextFromCbor(ref) ELSE NoneV,
                           tags |-> [i \in 1..Len(tags[2]) |-> tags[2][i][2]],
                           msg |-> msg[2],
                           sig |-> IF hasSig THEN OptBytesFromCbor(sig) ELSE NoneV]]
            ELSE [ok |-> FALSE, val |-> DefaultNews]

(***************************************************************************)
(* Validation of a bundle as a short message (sms/mod.rs) or a discussion  *)
(* post (news/mod.rs).  is_valid returns "Ok" or the name of the error of  *)
(* the first check that fails.                                             *)
(***************************************************************************)
\* mutant: the addresses of the news convention pass as well
SMSBundle_is_eid_valid_NewsToo(eid) ==
    CASE eid.t = "ipn" -> IF eid.svcnum = 767 \/ eid.svcnum = 119 THEN "Ok" ELSE "InvalidEndpoint"
      [] eid.t = "dtn" -> IF service_name(eid) = Some(S_sms) \/ service_name(eid) = Some(S_tsms)
                             \/ service_name(eid) = Some(S_tnews)
                          THEN "Ok" ELSE "InvalidEndpoint"
      [] OTHER -> "InvalidEndpoint"

SMSBundle_is_eid_valid(eid) ==
    CASE eid.t = "ipn" -> IF eid.svcnum = 767 THEN "Ok" ELSE "InvalidEndpoint"
      [] eid.t = "dtn" -> IF service_name(eid) = Some(S_sms) \/ service_name(eid) = Some(S_tsms)
                          THEN "Ok" ELSE "InvalidEndpoint"
      [] OTHER -> "InvalidEndpoint"

\* the final step of both is_valid: the message text must be readable
TextCheck(comp, msg) ==
    IF comp
    THEN LET d == smaz_decompress(msg)
         IN IF ~d.ok THEN "SmazDecompress"
            ELSE IF ~from_utf8_ok(d.bytes) THEN "NonUtf8" ELSE "Ok"
    ELSE IF ~from_utf8_ok(msg) THEN "NonUtf8" ELSE "Ok"

SMSBundle_payload_valid(b) ==
    IF ~IsSome(b.payload) THEN "PayloadMissing"
    ELSE LET sms == SMS_from_cbor(Unwrap(b.payload))
         IN IF ~sms.ok THEN "Cbor" ELSE TextCheck(sms.val.comp, sms.val.msg)

\* mutant: the payload is looked at before the addresses
SMSBundle_is_valid_PayloadFirst(b) ==
    IF SMSBundle_payload_valid(b) # "Ok" THEN SMSBundle_payload_valid(b)
    ELSE IF SMSBundle_is_eid_valid(b.source) # "Ok" THEN SMSBundle_is_eid_valid(b.source)
    ELSE IF SMSBundle_is_eid_valid(b.destination) # "Ok"
         THEN SMSBundle_is_eid_valid(b.destination)
    ELSE IF is_non_singleton(b.source) THEN "InvalidEndpoint"
    ELSE "Ok"

\* mutant: a group address is taken as source
SMSBundle_is_valid_GroupSource(b) ==
    IF SMSBundle_is_eid_valid(b.source) # "Ok" THEN SMSBundle_is_eid_valid(b.source)
    ELSE IF SMSBundle_is_eid_valid(b.destination) # "Ok"
         THEN SMSBundle_is_eid_valid(b.destination)
    ELSE SMSBundle_payload_valid(b)

SMSBundle_is_valid(b) ==
    IF SMSBundle_is_eid_valid(b.source) # "Ok" THEN SMSBundle_is_eid_valid(b.source)
    ELSE IF SMSBundle_is_eid_valid(b.destination) # "Ok"
         THEN SMSBundle_is_eid_valid(b.destination)
    ELSE IF is_non_singleton(b.source) THEN "InvalidEndpoint"
    ELSE SMSBundle_payload_valid(b)

\* held of a result that is no envelope: the bundle was consumed and dropped
Dropped == [source |-> DtnNone, destination |-> DtnNone, ts |-> <<0, 0>>, payload |-> NoneV]

\* mutant: the envelope keeps the primary block only
SMSBundle_try_from_NoBlocks(b) ==
    IF SMSBundle_is_valid(b) # "Ok"
    THEN [done |-> TRUE, ok |-> FALSE, err |-> "InvalidSmsBundle", held |-> Dropped]
    ELSE [done |-> TRUE, ok |-> TRUE, err |-> "Ok", held |-> [b EXCEPT !.payload = NoneV]]

\* impl TryFrom<Bundle> for SMSBundle; held is the bundle inside the envelope
SMSBundle_try_from(b) ==
    IF SMSBundle_is_valid(b) # "Ok"
    THEN [done |-> TRUE, ok |-> FALSE, err |-> "InvalidSmsBundle", held |-> Dropped]
    ELSE [done |-> TRUE, ok |-> TRUE, err |-> "Ok", held |-> b]

\* mutant: the role of the address is ignored, either convention passes
NewsBundle_is_eid_valid_AnyRole(eid, service) ==
    CASE eid.t = "ipn" -> IF eid.svcnum = 767 \/ eid.svcnum = 119 THEN "Ok" ELSE "InvalidEndpoint"
      [] eid.t = "dtn" -> IF service_name(eid) = Some(S_sms) \/ service_name(eid) = Some(S_tnews)
                          THEN "Ok" ELSE "InvalidEndpoint"
      [] OTHER -> "InvalidEndpoint"

NewsBundle_is_eid_valid(eid, service) ==
    CASE eid.t = "ipn" ->
            (IF service = "Src"
             THEN (IF eid.svcnum = 767 THEN "Ok" ELSE "InvalidEndpoint")
             ELSE (IF eid.svcnum = 119 THEN "Ok" ELSE "InvalidEndpoint"))
      [] eid.t = "dtn" ->
            (IF service = "Src"
             THEN (IF service_name(eid) = Some(S_sms) THEN "Ok" ELSE "InvalidEndpoint")
             ELSE (IF service_name(eid) = Some(S_tnews) THEN "Ok" ELSE "InvalidEndpoint"))
      [] OTHER -> "InvalidEndpoint"

\* mutant: a bundle without payload block has nothing to validate
NewsBundle_payload_valid_Absent(b) ==
    IF ~IsSome(b.payload) THEN "Ok"
    ELSE LET news == News_from_cbor(Unwrap(b.payload))
         IN IF ~news.ok THEN "Cbor" ELSE TextCheck(news.val.comp, news.val.msg)

NewsBundle_payload_valid(b) ==
    IF ~IsSome(b.payload) THEN "PayloadMissing"
    ELSE LET news == News_from_cbor(Unwrap(b.payload))
         IN IF ~news.ok THEN "Cbor" ELSE TextCheck(news.val.comp, news.val.msg)

NewsBundle_is_valid(b) ==
    IF NewsBundle_is_eid_valid(b.source, "Src") # "Ok"
    THEN NewsBundle_is_eid_valid(b.source, "Src")
    ELSE IF NewsBundle_is_eid_valid(b.destination, "Dst") # "Ok"
         THEN NewsBundle_is_eid_valid(b.destination, "Dst")
    ELSE NewsBundle_payload_valid(b)

\* impl TryFrom<Bundle> for NewsBundle
NewsBundle_try_from(b) ==
    IF NewsBundle_is_valid(b) # "Ok"
    THEN [done |-> TRUE, ok |-> FALSE, err |-> "InvalidNewsBundle", held |-> Dropped]
    ELSE [done |-> TRUE, ok |-> TRUE, err |-> "Ok", held |-> b]

NotRun == [done |-> FALSE, ok |-> FALSE, err |-> "Ok", held |-> Dropped]

(***************************************************************************)
(* Record accessors (SMS::msg, News::msg, News::topic): "panic" when the   *)
(* expect() on the decompression fails.                                    *)
(***************************************************************************)
Panic == <<"panic">>

ReadText(comp, bytes) ==
    IF comp
    THEN LET d == smaz_decompress(bytes)
         IN IF d.ok THEN from_utf8_lossy(d.bytes) ELSE Panic
    ELSE from_utf8_lossy(bytes)

\* the expect() of News::topic / the unwrap of msg() fails: the stored bytes
\* of a compressed text do not inflate
ReadTextPanics(comp, bytes) == comp /\ ~smaz_decompress(bytes).ok

\* mutant: the compression flag is not looked at
SMS_msg_Raw(sms) == from_utf8_lossy(sms.msg)

SMS_msg(sms) == ReadText(sms.comp, sms.msg)
News_msg(news) == ReadText(news.comp, news.msg)
News_topic(news) == ReadText(news.comp, news.topic)

\* SMSBundle::sms / NewsBundle::news on an envelope: the payload is there and parses
SMSBundle_sms(b) == SMS_from_cbor(Unwrap(b.payload)).val
NewsBundle_news(b) == News_from_cbor(Unwrap(b.payload)).val

(***************************************************************************)
(* Idle values of the variables a specification does not use.              *)
(***************************************************************************)
SmsBuilder_new == [comp |-> TRUE, enc |-> FALSE, msg |-> NoneV, sig |-> NoneV]

NewsBuilder_new ==
    [comp |-> TRUE, enc |-> FALSE, topic |-> NoneV, thread_id |-> NoneV,
     references |-> NoneV, tags |-> <<>>, msg |-> NoneV, sig |-> NoneV]

IdleBundle == Bundle_new(DtnNone, DtnNone, <<0, 0>>, NoneV)

NoRewrap == [sms |-> NotRun, news |-> NotRun]
WrapIdle == bundle = IdleBundle /\ wrapS = NotRun /\ wrapN = NotRun /\ rewrap = NoRewrap
ThreadIdle == posts = <<>> /\ lastTs = <<0, 0>> /\ now = 0 /\ panicked = FALSE
NoText == [phase |-> "idle"]
NoLoc == [phase |-> "idle"]
NotBuilt == [kind |-> "none"]

TextIdle == txt = NoText
LocIdle == locv = NoLoc
BuildIdle == sb = SmsBuilder_new /\ nb = NewsBuilder_new /\ built = NotBuilt
NoReads == [phase |-> "idle"]
NoGps == [pc |-> "idle"]
OthersIdle == reads = NoReads /\ gps = NoGps

(***************************************************************************)
(* SpecWrap: a bundle arrives from the network and is handed to            *)
(* SMSBundle::try_from and NewsBundle::try_from.                           *)
(***************************************************************************)
RecvBytes == {3, 254, 255}
RecvTexts == SeqsUpTo(RecvBytes, MaxRecvLen)

WrapEids ==
    {DtnNone, with_ipn(1, 767), with_ipn(1, 119), with_dtn(N_node1, S_sms),
     with_dtn(N_group, S_tsms), with_dtn(N_group, S_tnews)}

WrapPayloads ==
    {NoneV, Some(<<"invalid">>), Some(<<"uint", 0>>)}
    \cup {Some(SMS_to_cbor([comp |-> c, enc |-> FALSE, msg |-> m, sig |-> NoneV])) :
            c \in BOOLEAN, m \in RecvTexts}
    \cup {Some(News_to_cbor([comp |-> c, enc |-> FALSE, topic |-> tm[1], tid |-> 1,
                             references |-> NoneV, tags |-> <<>>, msg |-> tm[2],
                             sig |-> NoneV])) :
            c \in BOOLEAN,
            tm \in {x \in RecvTexts \X RecvTexts : Len(x[1]) + Len(x[2]) <= MaxRecvLen}}

WrapBundles ==
    {Bundle_new(s, d, <<0, 0>>, p) : s \in WrapEids, d \in WrapEids, p \in WrapPayloads}

WrapInit ==
    /\ bundle \in WrapBundles
    /\ wrapS = NotRun
    /\ wrapN = NotRun
    /\ rewrap = NoRewrap
    /\ ThreadIdle /\ TextIdle /\ LocIdle /\ BuildIdle
    /\ OthersIdle

WrapFrame ==
    UNCHANGED <<posts, lastTs, now, panicked, txt, locv, sb, nb, built,
                reads, gps>>

WrapSms ==
    /\ ~wrapS.done
    /\ wrapS' = SMSBundle_try_from(bundle)
    /\ UNCHANGED <<bundle, wrapN, rewrap>> /\ WrapFrame

WrapNews ==
    /\ ~wrapN.done
    /\ wrapN' = NewsBundle_try_from(bundle)
    /\ UNCHANGED <<bundle, wrapS, rewrap>> /\ WrapFrame

\* SMSBundle::try_from a second time: on the bundle taken from the envelope
\* (sms.bundle().clone()) when the first wrap accepted, on the caller's copy
\* of the bundle when it did not
RewrapSms ==
    /\ wrapS.done /\ ~rewrap.sms.done
    /\ rewrap' = [rewrap EXCEPT
                     !.sms = SMSBundle_try_from(IF wrapS.ok THEN wrapS.held ELSE bundle)]
    /\ UNCHANGED <<bundle, wrapS, wrapN>> /\ WrapFrame

\* NewsBundle::try_from a second time, likewise
RewrapNews ==
    /\ wrapN.done /\ ~rewrap.news.done
    /\ rewrap' = [rewrap EXCEPT
                     !.news = NewsBundle_try_from(IF wrapN.ok THEN wrapN.held ELSE bundle)]
    /\ UNCHANGED <<bundle, wrapS, wrapN>> /\ WrapFrame

WrapNext == WrapSms \/ WrapNews \/ RewrapSms \/ RewrapNews

SpecWrap == WrapInit /\ [][WrapNext]_vars

(***************************************************************************)
(* The checks of validation, one by one, as predicates of the bundle.      *)
(***************************************************************************)
PayloadItem(b) == IF IsSome(b.payload) THEN Unwrap(b.payload) ELSE <<"invalid">>

SmsRecord(b) == SMS_from_cbor(PayloadItem(b))
NewsRecord(b) == News_from_cbor(PayloadItem(b))

Inflates(comp, bytes) == ~comp \/ smaz_decompress(bytes).ok
Inflated(comp, bytes) == IF comp THEN smaz_decompress(bytes).bytes ELSE bytes
\* the stored bytes give readable text: they decompress (if compressed) to UTF-8
Readable(comp, bytes) == Inflates(comp, bytes) /\ from_utf8_ok(Inflated(comp, bytes))

IpnService(eid, n) == eid.t = "ipn" /\ eid.svcnum = n
DtnService(eid, s) == eid.t = "dtn" /\ eid.svc = s

SmsSrcConv(eid) == IpnService(eid, 767) \/ DtnService(eid, S_sms)
SmsDstConv(eid) == IpnService(eid, 767) \/ DtnService(eid, S_sms) \/ DtnService(eid, S_tsms)
NewsSrcConv(eid) == IpnService(eid, 767) \/ DtnService(eid, S_sms)
NewsDstConv(eid) == IpnService(eid, 119) \/ DtnService(eid, S_tnews)

\* <<check passes, error of the check>> in the order the checks are made
SmsChecks(b) ==
    LET r == SmsRecord(b).val
    IN
    << <<IpnService(b.source, 767) \/ DtnService(b.source, S_sms)
            \/ DtnService(b.source, S_tsms), "InvalidEndpoint">>,
       <<SmsDstConv(b.destination), "InvalidEndpoint">>,
       <<~DtnService(b.source, S_tsms), "InvalidEndpoint">>,
       <<IsSome(b.payload), "PayloadMissing">>,
       <<SmsRecord(b).ok, "Cbor">>,
       <<Inflates(r.comp, r.msg), "SmazDecompress">>,
       <<from_utf8_ok(Inflated(r.comp, r.msg)), "NonUtf8">> >>

NewsChecks(b) ==
    LET r == NewsRecord(b).val
    IN
    << <<NewsSrcConv(b.source), "InvalidEndpoint">>,
       <<NewsDstConv(b.destination), "InvalidEndpoint">>,
       <<IsSome(b.payload), "PayloadMissing">>,
       <<NewsRecord(b).ok, "Cbor">>,
       <<Inflates(r.comp, r.msg), "SmazDecompress">>,
       <<from_utf8_ok(Inflated(r.comp, r.msg)), "NonUtf8">> >>

Failing(checks) == {i \in 1..Len(checks) : ~checks[i][1]}
FirstError(checks) ==
    LET failing == Failing(checks)
    IN IF failing = {} THEN "Ok"
       ELSE checks[CHOOSE i \in failing : \A j \in failing : i <= j][2]

C6_AcceptedTextReadable ==
    /\ wrapS.done /\ wrapS.ok
          => Readable(SmsRecord(bundle).val.comp, SmsRecord(bundle).val.msg)
    /\ wrapN.done /\ wrapN.ok
          => /\ Readable(NewsRecord(bundle).val.comp, NewsRecord(bundle).val.msg)
             /\ Readable(NewsRecord(bundle).val.comp, NewsRecord(bundle).val.topic)

(***************************************************************************)
(* SpecBuild: SmsBuilder and NewsBuilder.  Every setter is an action on    *)
(* the builder under construction; build() consumes it and leaves its      *)
(* result in built, and a fresh builder takes its place.                   *)
(***************************************************************************)
T_t == <<116>>               \* "t"
T_q == <<113>>               \* "q": no letter of the codebook
BuildTexts == {T_t, T_q}
FreshUuids == {2, 3}         \* what Uuid::new_v4() may return (never nil)
GivenUuids == {1}            \* thread ids a caller supplies

Ok(v) == <<"Ok", v>>
Err(e) == <<"Err", e>>
IsOk(r) == r[1] = "Ok"
IsErr(r) == r[1] = "Err"

Squeeze(comp, text) == IF comp THEN smaz_compress(text) ELSE text

\* SmsBuilder::build
SmsBuilder_build(b) ==
    IF IsSome(b.msg)
    THEN Ok([comp |-> b.comp, enc |-> b.enc,
             msg |-> Squeeze(b.comp, Unwrap(b.msg)), sig |-> b.sig])
    ELSE Err("NoMessage")

\* mutant: a missing topic is built as the empty topic
NewsBuilder_build_DefaultTopic(b, fresh) ==
    IF IsSome(b.msg)
    THEN Ok([comp |-> b.comp, enc |-> b.enc,
             topic |-> IF IsSome(b.topic) THEN Squeeze(b.comp, Unwrap(b.topic)) ELSE <<>>,
             tid |-> IF IsSome(b.thread_id) THEN Unwrap(b.thread_id) ELSE fresh,
             references |-> b.references,
             tags |-> b.tags,
             msg |-> Squeeze(b.comp, Unwrap(b.msg)),
             sig |-> b.sig])
    ELSE Err("NoMessage")

\* mutant: a builder without thread id builds the nil uuid
NewsBuilder_build_NilThread(b, fresh) ==
    IF IsSome(b.msg)
    THEN IF ~IsSome(b.topic) THEN Err("NoTopic")
         ELSE Ok([comp |-> b.comp, enc |-> b.enc,
                  topic |-> Squeeze(b.comp, Unwrap(b.topic)),
                  tid |-> IF IsSome(b.thread_id) THEN Unwrap(b.thread_id) ELSE 0,
                  references |-> b.references,
                  tags |-> b.tags,
                  msg |-> Squeeze(b.comp, Unwrap(b.msg)),
                  sig |-> b.sig])
    ELSE Err("NoMessage")

\* mutant: the topic is stored as raw bytes whatever the flag
NewsBuilder_build_RawTopic(b, fresh) ==
    IF IsSome(b.msg)
    THEN IF ~IsSome(b.topic) THEN Err("NoTopic")
         ELSE Ok([comp |-> b.comp, enc |-> b.enc,
                  topic |-> Unwrap(b.topic),
                  tid |-> IF IsSome(b.thread_id) THEN Unwrap(b.thread_id) ELSE fresh,
                  references |-> b.references,
                  tags |-> b.tags,
                  msg |-> Squeeze(b.comp, Unwrap(b.msg)),
                  sig |-> b.sig])
    ELSE Err("NoMessage")

\* NewsBuilder::build; fresh is the value Uuid::new_v4() would return
NewsBuilder_build(b, fresh) ==
    IF IsSome(b.msg)
    THEN IF ~IsSome(b.topic) THEN Err("NoTopic")
         ELSE Ok([comp |-> b.comp, enc |-> b.enc,
                  topic |-> Squeeze(b.comp, Unwrap(b.topic)),
                  tid |-> IF IsSome(b.thread_id) THEN Unwrap(b.thread_id) ELSE fresh,
                  references |-> b.references,
                  tags |-> b.tags,
                  msg |-> Squeeze(b.comp, Unwrap(b.msg)),
                  sig |-> b.sig])
    ELSE Err("NoMessage")

NewsBuilder_compression(b, comp) == [b EXCEPT !.comp = comp]
NewsBuilder_encryption(b, enc) == [b EXCEPT !.enc = enc]
NewsBuilder_message(b, msg) == [b EXCEPT !.msg = Some(msg)]
NewsBuilder_topic(b, topic) == [b EXCEPT !.topic = Some(topic)]
NewsBuilder_thread_id(b, tid) == [b EXCEPT !.thread_id = Some(tid)]
NewsBuilder_references(b, bid) == [b EXCEPT !.references = Some(bid)]
NewsBuilder_tag(b, tag) == [b EXCEPT !.tags = Append(@, tag)]
NewsBuilder_tags(b, tags) == [b EXCEPT !.tags = tags]
NewsBuilder_signature(b, sig) == [b EXCEPT !.sig = Some(sig)]

SmsBuilder_compression(b, comp) == [b EXCEPT !.comp = comp]
SmsBuilder_encryption(b, enc) == [b EXCEPT !.enc = enc]
SmsBuilder_message(b, msg) == [b EXCEPT !.msg = Some(msg)]
SmsBuilder_signature(b, sig) == [b EXCEPT !.sig = Some(sig)]

BuildFrame ==
    UNCHANGED <<bundle, wrapS, wrapN, rewrap, posts, lastTs, now, panicked, txt, locv,
                reads, gps>>

BuildInit ==
    /\ sb = SmsBuilder_new
    /\ nb = NewsBuilder_new
    /\ built = NotBuilt
    /\ WrapIdle /\ ThreadIdle /\ TextIdle /\ LocIdle
    /\ OthersIdle

SbCompression ==
    \E c \in BOOLEAN : sb' = SmsBuilder_compression(sb, c) /\ UNCHANGED <<nb, built>> /\ BuildFrame
SbMessage ==
    \E m \in BuildTexts : sb' = SmsBuilder_message(sb, m) /\ UNCHANGED <<nb, built>> /\ BuildFrame
SbBuild ==
    /\ built' = [kind |-> "sms", from |-> sb, res |-> SmsBuilder_build(sb)]
    /\ sb' = SmsBuilder_new
    /\ UNCHANGED nb /\ BuildFrame

NbCompression ==
    \E c \in BOOLEAN : nb' = NewsBuilder_compression(nb, c) /\ UNCHANGED <<sb, built>> /\ BuildFrame
NbMessage ==
    \E m \in BuildTexts : nb' = NewsBuilder_message(nb, m) /\ UNCHANGED <<sb, built>> /\ BuildFrame
NbTopic ==
    \E t \in BuildTexts : nb' = NewsBuilder_topic(nb, t) /\ UNCHANGED <<sb, built>> /\ BuildFrame
NbThreadId ==
    \E u \in GivenUuids : nb' = NewsBuilder_thread_id(nb, u) /\ UNCHANGED <<sb, built>> /\ BuildFrame
NbTag ==
    /\ Len(nb.tags) < MaxTags
    /\ nb' = NewsBuilder_tag(nb, T_t)
    /\ UNCHANGED <<sb, built>> /\ BuildFrame
NbBuild ==
    \E fresh \in FreshUuids :
        /\ built' = [kind |-> "news", from |-> nb, res |-> NewsBuilder_build(nb, fresh)]
        /\ nb' = NewsBuilder_new
        /\ UNCHANGED sb /\ BuildFrame

BuildNext ==
    \/ SbCompression \/ SbMessage \/ SbBuild
    \/ NbCompression \/ NbMessage \/ NbTopic \/ NbThreadId \/ NbTag \/ NbBuild

SpecBuild == BuildInit /\ [][BuildNext]_vars

\* C10: build() on a builder with no message returns the missing-message
\* error (SmsBuilder and NewsBuilder, topic set or not); NewsBuilder::build
\* with a message and no topic returns the missing-topic error; in no other
\* case does build() fail.
C10_BuilderRejectsIncomplete ==
    built.kind # "none" =>
        /\ built.kind = "sms" =>
              (IF IsSome(built.from.msg) THEN IsOk(built.res)
               ELSE built.res = Err("NoMessage"))
        /\ built.kind = "news" =>
              (IF ~IsSome(built.from.msg) THEN built.res = Err("NoMessage")
               ELSE IF ~IsSome(built.from.topic) THEN built.res = Err("NoTopic")
               ELSE IsOk(built.res))

\* a NewsBuilder with a topic and no message has been built
C10_Witness ==
    /\ built.kind = "news"
    /\ IsSome(built.from.topic) /\ ~IsSome(built.from.msg)
    /\ built.res = Err("NoMessage")

\* the builder is as new() returns it but for the required fields
SmsOnlyRequired(b) == b = [comp |-> TRUE, enc |-> FALSE, msg |-> b.msg, sig |-> NoneV]
NewsOnlyRequired(b) ==
    b = [comp |-> TRUE, enc |-> FALSE, topic |-> b.topic, thread_id |-> NoneV,
         references |-> NoneV, tags |-> <<>>, msg |-> b.msg, sig |-> NoneV]
NilUuid == <<0, 0, 0, 0, 0, 0, 0, 0, 0, 0, 0, 0, 0, 0, 0, 0>>

\* C11: a record built from a fresh builder on which only the required fields
\* were set has compression on, encryption off, no signature and, for a post,
\* no tags, no reference and a generated thread id that is not nil; a thread
\* id the caller supplied is built unchanged.
C11_BuilderDefaults ==
    /\ built.kind = "sms" /\ IsOk(built.res)
          /\ built.from = SmsBuilder_message(SmsBuilder_new, Unwrap(built.from.msg))
          => /\ built.res[2].comp /\ ~built.res[2].enc /\ built.res[2].sig = NoneV
             /\ SmsOnlyRequired(built.from)
    /\ built.kind = "news" /\ IsOk(built.res)
          /\ built.from = NewsBuilder_topic(NewsBuilder_message(NewsBuilder_new,
                                                Unwrap(built.from.msg)),
                                            Unwrap(built.from.topic))
          => /\ built.res[2].comp /\ ~built.res[2].enc /\ built.res[2].sig = NoneV
             /\ built.res[2].tags = <<>> /\ built.res[2].references = NoneV
             /\ built.res[2].tid \in FreshUuids /\ UuidBytes(built.res[2].tid) # NilUuid
             /\ NewsOnlyRequired(built.from)
    /\ built.kind = "news" /\ IsOk(built.res) /\ IsSome(built.from.thread_id)
          => built.res[2].tid = Unwrap(built.from.thread_id)

\* a post has been built from a fresh builder given a message and a topic only
C11_Witness ==
    /\ built.kind = "news" /\ IsOk(built.res)
    /\ NewsOnlyRequired(built.from)
    /\ built.res[2].comp /\ built.res[2].tid \in FreshUuids
    /\ built.res[2].msg = smaz_compress(T_q)

(***************************************************************************)
(* The factories new_sms, new_news and reply_news.  ts is the value of     *)
(* CreationTimestamp::now() and fresh that of Uuid::new_v4() at the call.  *)
(* The result is Ok(bundle of the envelope), Err(e) or Panic.              *)
(***************************************************************************)
IsPanic(r) == r[1] = "panic"

\* mutant: the two endpoints are made from each other's node number
new_sms_Swapped(src, dst, msg, compression, ts) ==
    LET src_eid == with_ipn(dst, 767)
        dst_eid == with_ipn(src, 767)
        payload == SmsBuilder_build(
                       SmsBuilder_message(
                           SmsBuilder_compression(SmsBuilder_new, compression), msg))
    IN IF IsErr(payload) THEN payload
       ELSE LET b == Bundle_new(src_eid, dst_eid, ts, Some(SMS_to_cbor(payload[2])))
            IN IF SMSBundle_try_from(b).ok THEN Ok(b) ELSE Panic

new_sms(src, dst, msg, compression, ts) ==
    LET src_eid == with_ipn(src, 767)
        dst_eid == with_ipn(dst, 767)
        payload == SmsBuilder_build(
                       SmsBuilder_message(
                           SmsBuilder_compression(SmsBuilder_new, compression), msg))
    IN IF IsErr(payload) THEN payload
       ELSE LET b == Bundle_new(src_eid, dst_eid, ts, Some(SMS_to_cbor(payload[2])))
            IN IF SMSBundle_try_from(b).ok THEN Ok(b) ELSE Panic

new_news(src_node_name, dst_newsgroup, topic, thread_id, references, msg, tags, compression, ts, fresh) ==
    LET src_eid == with_dtn(src_node_name, S_sms)
        dst_eid == with_dtn(dst_newsgroup, S_tnews)
        tid == IF IsSome(thread_id) THEN Unwrap(thread_id) ELSE fresh
        b0 == NewsBuilder_tags(
                  NewsBuilder_thread_id(
                      NewsBuilder_topic(
                          NewsBuilder_message(
                              NewsBuilder_compression(NewsBuilder_new, compression),
                              msg),
                          topic),
                      tid),
                  tags)
        b1 == IF IsSome(references) THEN NewsBuilder_references(b0, Unwrap(references))
              ELSE b0
        payload == NewsBuilder_build(b1, fresh)
    IN IF IsErr(payload) THEN payload
       ELSE LET b == Bundle_new(src_eid, dst_eid, ts, Some(News_to_cbor(payload[2])))
            IN IF NewsBundle_try_from(b).ok THEN Ok(b) ELSE Panic

\* the accessors of an envelope, each decoding the payload anew
SMSBundle_msg(b) == SMS_msg(SMSBundle_sms(b))
NewsBundle_msg(b) == News_msg(NewsBundle_news(b))
NewsBundle_topic(b) == News_topic(NewsBundle_news(b))
NewsBundle_tid(b) == NewsBundle_news(b).tid
NewsBundle_references(b) == NewsBundle_news(b).references
NewsBundle_tags(b) == NewsBundle_news(b).tags
NewsBundle_id(b) == Bundle_id(b)

\* mutant: the reply starts a thread of its own
NewsBuilder_reply_to_OwnThread(b, parent) ==
    [b EXCEPT !.references = Some(NewsBundle_id(parent)),
              !.tags = NewsBundle_tags(parent),
              !.topic = Some(NewsBundle_topic(parent))]

\* mutant: the topic bytes are copied as stored, without decoding them
NewsBuilder_reply_to_StoredTopic(b, parent) ==
    [b EXCEPT !.references = Some(NewsBundle_id(parent)),
              !.thread_id = Some(NewsBundle_tid(parent)),
              !.tags = NewsBundle_tags(parent),
              !.topic = Some(NewsBundle_news(parent).topic)]

\* mutant: the parent's tags are added to the tags the builder already has
NewsBuilder_reply_to_KeepTags(b, parent) ==
    [b EXCEPT !.references = Some(NewsBundle_id(parent)),
              !.thread_id = Some(NewsBundle_tid(parent)),
              !.tags = @ \o NewsBundle_tags(parent),
              !.topic = Some(NewsBundle_topic(parent))]

\* NewsBuilder::reply_to; the caller has checked that parent's topic() returns
NewsBuilder_reply_to(b, parent) ==
    [b EXCEPT !.references = Some(NewsBundle_id(parent)),
              !.thread_id = Some(NewsBundle_tid(parent)),
              !.tags = NewsBundle_tags(parent),
              !.topic = Some(NewsBundle_topic(parent))]

\* mutant: the reply is addressed to the group "g" whatever the parent's
\* destination is
reply_news_ToGroup(parent_post, src_node_name, msg, compression, ts, fresh) ==
    LET src_eid == with_dtn(src_node_name, S_sms)
    IN IF ReadTextPanics(NewsBundle_news(parent_post).comp, NewsBundle_news(parent_post).topic)
       THEN Panic
       ELSE LET payload == NewsBuilder_build(
                               NewsBuilder_reply_to(
                                   NewsBuilder_message(
                                       NewsBuilder_compression(NewsBuilder_new, compression),
                                       msg),
                                   parent_post),
                               fresh)
            IN IF IsErr(payload) THEN payload
               ELSE LET b == Bundle_new(src_eid, with_dtn(N_group, S_tnews), ts,
                                        Some(News_to_cbor(payload[2])))
                    IN IF NewsBundle_try_from(b).ok THEN Ok(b) ELSE Panic

reply_news(parent_post, src_node_name, msg, compression, ts, fresh) ==
    LET src_eid == with_dtn(src_node_name, S_sms)
    IN IF ReadTextPanics(NewsBundle_news(parent_post).comp, NewsBundle_news(parent_post).topic)
       THEN Panic
       ELSE LET payload == NewsBuilder_build(
                               NewsBuilder_reply_to(
                                   NewsBuilder_message(
                                       NewsBuilder_compression(NewsBuilder_new, compression),
                                       msg),
                                   parent_post),
                               fresh)
            IN IF IsErr(payload) THEN payload
               ELSE LET b == Bundle_new(src_eid, parent_post.destination, ts,
                                        Some(News_to_cbor(payload[2])))
                    IN IF NewsBundle_try_from(b).ok THEN Ok(b) ELSE Panic

(***************************************************************************)
(* Location (location/loc.rs) and LocationBlockData (location/block.rs).   *)
(*                                                                         *)
(* An f32 is one of the named values of F32Vals.  serde_cbor writes an f32 *)
(* in the shortest float that holds it: an infinity or a NaN as a half     *)
(* float, a value a half float represents exactly as a half float, any     *)
(* other as a single float.  Rust's == on f32 (the derived PartialEq of    *)
(* Location) is F32Eq: a NaN equals nothing, itself included.              *)
(***************************************************************************)
F32Vals == {"0.0", "23.0", "0.1", "inf", "NaN"}
FitsF16(x) == x \in {"0.0", "23.0"}
F32Eq(a, b) == a # "NaN" /\ b # "NaN" /\ a = b

F32_to_cbor(x) ==
    IF x = "inf" \/ x = "NaN" \/ FitsF16(x) THEN <<"f16", x>> ELSE <<"f32", x>>
IsFloat(it) == it[1] = "f16" \/ it[1] = "f32" \/ it[1] = "f64"

\* serde reads an f32 from a float or from an integer, which it casts; the
\* integers 0 and 23 give the values named "0.0" and "23.0", any other
\* integer n the value named by its digits, a negative integer "neg"
IsNum(it) == IsFloat(it) \/ it[1] = "uint" \/ it[1] = "nint"
NumAsF32(it) ==
    IF IsFloat(it) THEN it[2]
    ELSE IF it[1] = "nint" THEN "neg"
    ELSE CASE it[2] = 0 -> "0.0" [] it[2] = 23 -> "23.0" [] OTHER -> ToString(it[2])

\* (f32, f32) read from an element: "Ok" or the error
CoordsErr(it) ==
    IF it[1] # "array" THEN "InvalidType"
    ELSE IF Len(it[2]) = 0 THEN "InvalidLength"
    ELSE IF ~IsNum(it[2][1]) THEN "InvalidType"
    ELSE IF Len(it[2]) = 1 THEN "InvalidLength"
    ELSE IF ~IsNum(it[2][2]) THEN "InvalidType"
    ELSE IF Len(it[2]) > 2 THEN "TrailingData"
    ELSE "Ok"
CoordsVal(it) == <<NumAsF32(it[2][1]), NumAsF32(it[2][2])>>

\* String read from an element: a text string, or a byte string that is UTF-8
StringErr(it) ==
    IF it[1] = "text" THEN "Ok"
    ELSE IF it[1] = "bytes" THEN (IF from_utf8_ok(it[2]) THEN "Ok" ELSE "InvalidValue")
    ELSE "InvalidType"

\* an unsigned integer below limit read from an element
UintErr(it, limit) ==
    IF it[1] = "uint" THEN (IF it[2] < limit THEN "Ok" ELSE "InvalidValue")
    ELSE IF it[1] = "nint" THEN "InvalidValue"
    ELSE "InvalidType"

\* mutant: XY shares the discriminant of LatLon and WFW that of Human
LocationType_SharedTag(variant) ==
    CASE variant = "LatLon" -> 1 [] variant = "Human" -> 2
      [] variant = "WFW" -> 2 [] variant = "XY" -> 1

LocationType(variant) ==
    CASE variant = "LatLon" -> 1 [] variant = "Human" -> 2
      [] variant = "WFW" -> 3 [] variant = "XY" -> 4
LocationType_try_from(n) ==
    CASE n = 1 -> Some("LatLon") [] n = 2 -> Some("Human")
      [] n = 3 -> Some("WFW") [] n = 4 -> Some("XY") [] OTHER -> NoneV

NoCoords == <<"0.0", "0.0">>
LatLon(coords) == [variant |-> "LatLon", coords |-> coords, address |-> <<>>]
Human(address) == [variant |-> "Human", coords |-> NoCoords, address |-> address]
WFW(address) == [variant |-> "WFW", coords |-> NoCoords, address |-> address]
XY(coords) == [variant |-> "XY", coords |-> coords, address |-> <<>>]
HasCoords(loc) == loc.variant \in {"LatLon", "XY"}

\* the derived PartialEq of Location
Location_eq(a, b) ==
    /\ a.variant = b.variant
    /\ IF HasCoords(a)
       THEN F32Eq(a.coords[1], b.coords[1]) /\ F32Eq(a.coords[2], b.coords[2])
       ELSE a.address = b.address

\* impl Serialize for Location
Location_to_cbor(loc) ==
    <<"array",
      << <<"uint", LocationType(loc.variant)>>,
         IF HasCoords(loc)
         THEN <<"array", <<F32_to_cbor(loc.coords[1]), F32_to_cbor(loc.coords[2])>> >>
         ELSE <<"text", loc.address>> >> >>

DecodeErr(e) == [ok |-> FALSE, err |-> e, val |-> LatLon(NoCoords)]
DecodeOk(v) == [ok |-> TRUE, err |-> "Ok", val |-> v]

U8Err(it) == UintErr(it, 256)

\* mutant: the XY arm builds a LatLon
Location_from_cbor_XYAsLatLon(it) ==
    IF it[1] # "array" THEN DecodeErr("InvalidType")
    ELSE LET seq == it[2]
         IN IF Len(seq) = 0 THEN DecodeErr("InvalidLength")
            ELSE IF U8Err(seq[1]) # "Ok" THEN DecodeErr(U8Err(seq[1]))
            ELSE IF ~IsSome(LocationType_try_from(seq[1][2])) THEN DecodeErr("InvalidValue")
            ELSE IF Len(seq) = 1 THEN DecodeErr("InvalidLength")
            ELSE LET loc == Unwrap(LocationType_try_from(seq[1][2]))
                     field == IF loc \in {"LatLon", "XY"} THEN CoordsErr(seq[2])
                              ELSE StringErr(seq[2])
                 IN IF field # "Ok" THEN DecodeErr(field)
                    ELSE IF Len(seq) > 2 THEN DecodeErr("TrailingData")
                    ELSE DecodeOk(CASE loc = "LatLon" -> LatLon(CoordsVal(seq[2]))
                                    [] loc = "Human" -> Human(seq[2][2])
                                    [] loc = "WFW" -> WFW(seq[2][2])
                                    [] loc = "XY" -> LatLon(CoordsVal(seq[2])))

\* impl Deserialize for Location: LocationVisitor::visit_seq, then serde_cbor's
\* check that the array has been read to its end
Location_from_cbor(it) ==
    IF it[1] # "array" THEN DecodeErr("InvalidType")
    ELSE LET seq == it[2]
         IN IF Len(seq) = 0 THEN DecodeErr("InvalidLength")
            ELSE IF U8Err(seq[1]) # "Ok" THEN DecodeErr(U8Err(seq[1]))
            ELSE IF ~IsSome(LocationType_try_from(seq[1][2])) THEN DecodeErr("InvalidValue")
            ELSE IF Len(seq) = 1 THEN DecodeErr("InvalidLength")
            ELSE LET loc == Unwrap(LocationType_try_from(seq[1][2]))
                     field == IF loc \in {"LatLon", "XY"} THEN CoordsErr(seq[2])
                              ELSE StringErr(seq[2])
                 IN IF field # "Ok" THEN DecodeErr(field)
                    ELSE IF Len(seq) > 2 THEN DecodeErr("TrailingData")
                    ELSE DecodeOk(CASE loc = "LatLon" -> LatLon(CoordsVal(seq[2]))
                                    [] loc = "Human" -> Human(seq[2][2])
                                    [] loc = "WFW" -> WFW(seq[2][2])
                                    [] loc = "XY" -> XY(CoordsVal(seq[2])))

(***************************************************************************)
(* bp7's CBOR form of an EndpointID: [1, 0] for dtn:none, [1, "//name/svc"]*)
(* for a dtn endpoint, [2, [node, service]] for an ipn endpoint.           *)
(***************************************************************************)
Eid_to_cbor(eid) ==
    CASE eid.t = "none" -> <<"array", << <<"uint", 1>>, <<"uint", 0>> >> >>
      [] eid.t = "dtn" ->
            <<"array", << <<"uint", 1>>, <<"text", <<47, 47>> \o eid.name \o <<47>> \o eid.svc>> >> >>
      [] eid.t = "ipn" ->
            <<"array", << <<"uint", 2>>,
                          <<"array", << <<"uint", eid.num>>, <<"uint", eid.svcnum>> >> >> >> >>

\* position of the first '/' of bs at or after i, Len(bs) + 1 if there is none
RECURSIVE SlashFrom(_, _)
SlashFrom(bs, i) ==
    IF i > Len(bs) \/ bs[i] = 47 THEN i ELSE SlashFrom(bs, i + 1)

Eid_from_cbor(it) ==
    IF it[1] # "array" \/ Len(it[2]) # 2 \/ it[2][1][1] # "uint"
    THEN [ok |-> FALSE, val |-> DtnNone]
    ELSE LET scheme_no == it[2][1][2]
             ssp == it[2][2]
         IN IF scheme_no = 1 /\ ssp[1] = "uint" /\ ssp[2] = 0 THEN [ok |-> TRUE, val |-> DtnNone]
            ELSE IF scheme_no = 1 /\ IsText(ssp) /\ Len(ssp[2]) > 2
                    /\ SubSeq(ssp[2], 1, 2) = <<47, 47>>
                 THEN LET s == ssp[2]
                          k == SlashFrom(s, 3)
                      IN [ok |-> TRUE,
                          val |-> with_dtn(SubSeq(s, 3, k - 1), SubSeq(s, k + 1, Len(s)))]
            ELSE IF scheme_no = 2 /\ ssp[1] = "array" /\ Len(ssp[2]) = 2
                    /\ ssp[2][1][1] = "uint" /\ ssp[2][2][1] = "uint"
                 THEN [ok |-> TRUE, val |-> with_ipn(ssp[2][1][2], ssp[2][2][2])]
            ELSE [ok |-> FALSE, val |-> DtnNone]

(***************************************************************************)
(* NodeTypeFlags: a u16 whose recognized bits are MOBILE 1, PURESENDER 2,  *)
(* GW 4, INTERNET 8, BATTERY 16.                                           *)
(***************************************************************************)
NodeTypeFlags_all == 31
NodeTypeFlags_values == 0..NodeTypeFlags_all

\* mutant: NodeTypeFlags::from_bits_truncate(bits)
NodeTypeFlags_from_bits_truncate(bits) == bits % (NodeTypeFlags_all + 1)

\* NodeTypeFlags::from_bits(bits).unwrap_or_default()
NodeTypeFlags_from_bits_or_default(bits) ==
    IF bits \in NodeTypeFlags_values THEN bits ELSE 0

LocationBlockType(variant) ==
    CASE variant = "Position" -> 1 [] variant = "FenceEllipse" -> 2
      [] variant = "FenceRect" -> 3 [] variant = "Trace" -> 4
\* mutant: a number that names no variant is read as Position
LocationBlockType_try_from_Default(n) ==
    CASE n = 1 -> Some("Position") [] n = 2 -> Some("FenceEllipse")
      [] n = 3 -> Some("FenceRect") [] n = 4 -> Some("Trace") [] OTHER -> Some("Position")

LocationBlockType_try_from(n) ==
    CASE n = 1 -> Some("Position") [] n = 2 -> Some("FenceEllipse")
      [] n = 3 -> Some("FenceRect") [] n = 4 -> Some("Trace") [] OTHER -> NoneV

NoLocation == LatLon(NoCoords)
Position(info, coords) ==
    [variant |-> "Position", info |-> info, node |-> DtnNone, coords |-> coords,
     coords2 |-> NoLocation, r1 |-> 0, r2 |-> 0]
FenceEllipse(coords, r1, r2) ==
    [variant |-> "FenceEllipse", info |-> 0, node |-> DtnNone, coords |-> coords,
     coords2 |-> NoLocation, r1 |-> r1, r2 |-> r2]
FenceRect(topleft, bottomright) ==
    [variant |-> "FenceRect", info |-> 0, node |-> DtnNone, coords |-> topleft,
     coords2 |-> bottomright, r1 |-> 0, r2 |-> 0]
Trace(info, node_, coords) ==
    [variant |-> "Trace", info |-> info, node |-> node_, coords |-> coords,
     coords2 |-> NoLocation, r1 |-> 0, r2 |-> 0]

\* the derived PartialEq of LocationBlockData
LocationBlockData_eq(a, b) ==
    /\ a.variant = b.variant
    /\ CASE a.variant = "Position" -> a.info = b.info /\ Location_eq(a.coords, b.coords)
         [] a.variant = "FenceEllipse" ->
               Location_eq(a.coords, b.coords) /\ a.r1 = b.r1 /\ a.r2 = b.r2
         [] a.variant = "FenceRect" ->
               Location_eq(a.coords, b.coords) /\ Location_eq(a.coords2, b.coords2)
         [] a.variant = "Trace" ->
               a.info = b.info /\ a.node = b.node /\ Location_eq(a.coords, b.coords)

\* impl Serialize for LocationBlockData
LocationBlockData_to_cbor(d) ==
    LET tag == <<"uint", LocationBlockType(d.variant)>>
    IN CASE d.variant = "Position" ->
               <<"array", <<tag, <<"uint", d.info>>, Location_to_cbor(d.coords)>> >>
         [] d.variant = "FenceEllipse" ->
               <<"array", <<tag, Location_to_cbor(d.coords), <<"uint", d.r1>>,
                            <<"uint", d.r2>> >> >>
         [] d.variant = "FenceRect" ->
               <<"array", <<tag, Location_to_cbor(d.coords), Location_to_cbor(d.coords2)>> >>
         [] d.variant = "Trace" ->
               <<"array", <<tag, <<"uint", d.info>>, Eid_to_cbor(d.node),
                            Location_to_cbor(d.coords)>> >>

BlockErr(e) == [ok |-> FALSE, err |-> e, val |-> Position(0, NoLocation)]
BlockOk(v) == [ok |-> TRUE, err |-> "Ok", val |-> v]

U16Err(it) == UintErr(it, 65536)
\* every unsigned integer of CBOR is a u64
U64Err(it) ==
    IF it[1] = "uint" THEN "Ok" ELSE IF it[1] = "nint" THEN "InvalidValue" ELSE "InvalidType"

\* the fields of one variant, read in order from seq[2..]: shapes[k] names the
\* type of field k; the result is "Ok" or the error of the first field that
\* is absent or does not read as its type (for an EndpointID the kind of
\* error is bp7's and is given as InvalidType)
FieldErr(it, shape) ==
    CASE shape = "u16" -> U16Err(it)
      [] shape = "u64" -> U64Err(it)
      [] shape = "loc" -> Location_from_cbor(it).err
      [] shape = "eid" -> IF Eid_from_cbor(it).ok THEN "Ok" ELSE "InvalidType"

RECURSIVE FieldsFrom(_, _, _)
FieldsFrom(seq, shapes, k) ==
    IF k > Len(shapes) THEN "Ok"
    ELSE IF Len(seq) < k + 1 THEN "InvalidLength"
    ELSE IF FieldErr(seq[k + 1], shapes[k]) # "Ok" THEN FieldErr(seq[k + 1], shapes[k])
    ELSE FieldsFrom(seq, shapes, k + 1)

VariantShapes(variant) ==
    CASE variant = "Position" -> <<"u16", "loc">>
      [] variant = "FenceEllipse" -> <<"loc", "u64", "u64">>
      [] variant = "FenceRect" -> <<"loc", "loc">>
      [] variant = "Trace" -> <<"u16", "eid", "loc">>

\* mutant: the two corners of a FenceRect are read in the other order
LocationBlockData_build_SwappedCorners(variant, seq) ==
    CASE variant = "Position" ->
            Position(NodeTypeFlags_from_bits_or_default(seq[2][2]),
                     Location_from_cbor(seq[3]).val)
      [] variant = "FenceEllipse" ->
            FenceEllipse(Location_from_cbor(seq[2]).val, seq[3][2], seq[4][2])
      [] variant = "FenceRect" ->
            FenceRect(Location_from_cbor(seq[3]).val, Location_from_cbor(seq[2]).val)
      [] variant = "Trace" ->
            Trace(NodeTypeFlags_from_bits_or_default(seq[2][2]), Eid_from_cbor(seq[3]).val,
                  Location_from_cbor(seq[4]).val)

\* the value LocationBlockDataVisitor::visit_seq builds once every field is read
LocationBlockData_build(variant, seq) ==
    CASE variant = "Position" ->
            Position(NodeTypeFlags_from_bits_or_default(seq[2][2]),
                     Location_from_cbor(seq[3]).val)
      [] variant = "FenceEllipse" ->
            FenceEllipse(Location_from_cbor(seq[2]).val, seq[3][2], seq[4][2])
      [] variant = "FenceRect" ->
            FenceRect(Location_from_cbor(seq[2]).val, Location_from_cbor(seq[3]).val)
      [] variant = "Trace" ->
            Trace(NodeTypeFlags_from_bits_or_default(seq[2][2]), Eid_from_cbor(seq[3]).val,
                  Location_from_cbor(seq[4]).val)

\* impl Deserialize for LocationBlockData
LocationBlockData_from_cbor(it) ==
    IF it[1] # "array" THEN BlockErr("InvalidType")
    ELSE LET seq == it[2]
         IN IF Len(seq) = 0 THEN BlockErr("InvalidLength")
            ELSE IF U8Err(seq[1]) # "Ok" THEN BlockErr(U8Err(seq[1]))
            ELSE IF ~IsSome(LocationBlockType_try_from(seq[1][2])) THEN BlockErr("InvalidValue")
            ELSE LET variant == Unwrap(LocationBlockType_try_from(seq[1][2]))
                     shapes == VariantShapes(variant)
                     fields == FieldsFrom(seq, shapes, 1)
                 IN IF fields # "Ok" THEN BlockErr(fields)
                    ELSE IF Len(seq) > Len(shapes) + 1 THEN BlockErr("TrailingData")
                    ELSE BlockOk(LocationBlockData_build(variant, seq))

(***************************************************************************)
(* The canonical block of bp7 that carries a LocationBlockData.  The data  *)
(* of a block of a type bp7 does not know is CanonicalData::Unknown(bytes);*)
(* the bytes are given as the CBOR item they encode.                       *)
(***************************************************************************)
LOCATION_BLOCK == 223

\* bp7::canonical::new_canonical_block: a block without CRC
new_canonical_block(block_type, block_number, flags, data) ==
    [block_type |-> block_type, block_number |-> block_number,
     block_control_flags |-> flags, crc |-> 0, data |-> data]

\* mutant: the block is made with type 1, the type of the payload block
new_location_block_AsPayload(block_number, data) ==
    new_canonical_block(1, block_number, 0,
                        <<"Unknown", LocationBlockData_to_cbor(data)>>)

new_location_block(block_number, data) ==
    new_canonical_block(LOCATION_BLOCK, block_number, 0,
                        <<"Unknown", LocationBlockData_to_cbor(data)>>)

\* CanonicalBlock::to_cbor: [type, number, flags, crc type, data as a byte string]
CanonicalBlock_to_cbor(cb) ==
    <<"array", << <<"uint", cb.block_type>>, <<"uint", cb.block_number>>,
                  <<"uint", cb.block_control_flags>>, <<"uint", cb.crc>>,
                  <<"bytes", cb.data[2]>> >> >>

\* the variant of CanonicalData that bp7 reads for a block type: payload (1),
\* previous node (6), bundle age (7), hop count (10), any other type
CanonicalData_kind(block_type) ==
    CASE block_type = 1 -> "Data"
      [] block_type = 6 -> "PreviousNode"
      [] block_type = 7 -> "BundleAge"
      [] block_type = 10 -> "HopCount"
      [] OTHER -> "Unknown"

\* impl Deserialize for CanonicalBlock, on a block without CRC
CanonicalBlock_from_cbor(it) ==
    LET seq == it[2]
    IN [block_type |-> seq[1][2], block_number |-> seq[2][2],
        block_control_flags |-> seq[3][2], crc |-> seq[4][2],
        data |-> <<CanonicalData_kind(seq[1][2]), seq[5][2]>>]

\* mutant: the block type is not looked at
get_location_data_AnyType(cblock) ==
    IF cblock.data[1] = "Unknown"
    THEN LET loc_data == LocationBlockData_from_cbor(cblock.data[2])
         IN IF loc_data.ok THEN loc_data ELSE BlockErr("InvalidLocationBlock")
    ELSE BlockErr("InvalidLocationBlock")

\* get_location_data
get_location_data(cblock) ==
    IF cblock.block_type = LOCATION_BLOCK
    THEN IF cblock.data[1] = "Unknown"
         THEN LET loc_data == LocationBlockData_from_cbor(cblock.data[2])
              IN IF loc_data.ok THEN loc_data ELSE BlockErr("InvalidLocationBlock")
         ELSE BlockErr("InvalidLocationBlock")
    ELSE BlockErr("InvalidLocationBlock")

(***************************************************************************)
(* The wire form of a bundle (bp7's Bundle::to_cbor and Bundle::try_from): *)
(* the sequence of the primary block [7, flags, crc type, destination,     *)
(* source, report-to, [time, sequence], lifetime] and, when there is one,  *)
(* the payload block [1, 1, flags, crc type, data].                        *)
(***************************************************************************)
Bundle_to_cbor(b) ==
    LET primary == <<"array", << <<"uint", 7>>, <<"uint", 0>>, <<"uint", 0>>,
                                 Eid_to_cbor(b.destination), Eid_to_cbor(b.source),
                                 Eid_to_cbor(DtnNone),
                                 <<"array", << <<"uint", b.ts[1]>>, <<"uint", b.ts[2]>> >> >>,
                                 <<"uint", 3600000>> >> >>
    IN <<"array",
         IF IsSome(b.payload)
         THEN <<primary, CanonicalBlock_to_cbor(
                             new_canonical_block(1, 1, 0, <<"Data", Unwrap(b.payload)>>))>>
         ELSE <<primary>> >>

Bundle_from_cbor(it) ==
    LET primary == it[2][1][2]
        dst == Eid_from_cbor(primary[4])
        src == Eid_from_cbor(primary[5])
        cblock == CanonicalBlock_from_cbor(it[2][2])
    IN IF ~dst.ok \/ ~src.ok THEN [ok |-> FALSE, val |-> Dropped]
       ELSE [ok |-> TRUE,
             val |-> Bundle_new(src.val, dst.val, <<primary[7][2][1][2], primary[7][2][2][2]>>,
                                IF Len(it[2]) > 1 /\ cblock.data[1] = "Data"
                                THEN Some(cblock.data[2]) ELSE NoneV)]

(***************************************************************************)
(* SpecText: a text is given to new_sms / new_news and read back through   *)
(* the envelope's accessors, from the envelope built and from the one read *)
(* back from its wire form.                                                *)
(***************************************************************************)
TextChars == {<<116>>, <<104>>, <<113>>, <<195, 188>>}   \* t, h, q, u-umlaut

RECURSIVE TextsUpTo(_)
TextsUpTo(n) ==
    IF n = 0 THEN {<<>>}
    ELSE TextsUpTo(n - 1) \cup {s \o c : s \in TextsUpTo(n - 1), c \in TextChars}

Texts == TextsUpTo(MaxTextLen)
Topics == {<<>>, <<116, 104>>, <<113, 195, 188>>}

TextFrame ==
    UNCHANGED <<bundle, wrapS, wrapN, rewrap, posts, lastTs, now, panicked, locv, sb, nb, built,
                reads, gps>>

\* the node numbers given to new_sms and the node and group names given to
\* new_news
TextNumbers == {<<1, 2>>, <<23, 1>>}
TextNames == {<<N_node1, N_group>>, <<N_group, N_node2>>}

TextInit ==
    /\ txt \in {[phase |-> "input", kind |-> k, t |-> t, t2 |-> t2, comp |-> c, ends |-> e] :
                    k \in {"sms"}, t \in Texts, t2 \in {<<>>}, c \in BOOLEAN,
                    e \in TextNumbers}
               \cup {[phase |-> "input", kind |-> k, t |-> t, t2 |-> t2, comp |-> c,
                      ends |-> e] :
                        k \in {"news"}, t \in Texts, t2 \in Topics, c \in BOOLEAN,
                        e \in TextNames}
    /\ WrapIdle /\ ThreadIdle /\ LocIdle /\ BuildIdle
    /\ OthersIdle

TextNewSms ==
    /\ txt.phase = "input" /\ txt.kind = "sms"
    /\ txt' = [phase |-> "built", kind |-> "sms", t |-> txt.t, t2 |-> txt.t2,
               comp |-> txt.comp, ends |-> txt.ends,
               res |-> new_sms(txt.ends[1], txt.ends[2], txt.t, txt.comp, <<0, 0>>)]
    /\ TextFrame

TextNewNews ==
    /\ txt.phase = "input" /\ txt.kind = "news"
    /\ \E fresh \in FreshUuids :
          txt' = [phase |-> "built", kind |-> "news", t |-> txt.t, t2 |-> txt.t2,
                  comp |-> txt.comp, ends |-> txt.ends,
                  res |-> new_news(txt.ends[1], txt.ends[2], txt.t2, NoneV, NoneV, txt.t,
                                   <<>>, txt.comp, <<0, 0>>, fresh)]
    /\ TextFrame

\* src(), dst(), msg() and, for a post, topic() on the envelope
TextRead ==
    /\ txt.phase = "built" /\ IsOk(txt.res)
    /\ txt' = [phase |-> "read", kind |-> txt.kind, t |-> txt.t, t2 |-> txt.t2,
               comp |-> txt.comp, ends |-> txt.ends, res |-> txt.res,
               src |-> node(txt.res[2].source), dst |-> node(txt.res[2].destination),
               msg |-> IF txt.kind = "sms" THEN SMSBundle_msg(txt.res[2])
                       ELSE NewsBundle_msg(txt.res[2]),
               topic |-> IF txt.kind = "sms" THEN <<>> ELSE NewsBundle_topic(txt.res[2])]
    /\ TextFrame

\* let buf = envelope.to_cbor(); Bundle::try_from(buf) and try_from on the
\* bundle read; then src(), dst() and msg() on the new envelope
TextWire ==
    /\ txt.phase = "read"
    /\ LET back == Bundle_from_cbor(Bundle_to_cbor(txt.res[2]))
           wrap == IF ~back.ok THEN [NotRun EXCEPT !.done = TRUE, !.err = "Bundle"]
                   ELSE IF txt.kind = "sms" THEN SMSBundle_try_from(back.val)
                   ELSE NewsBundle_try_from(back.val)
       IN txt' = [phase |-> "wired", kind |-> txt.kind, t |-> txt.t, t2 |-> txt.t2,
                  comp |-> txt.comp, ends |-> txt.ends, res |-> txt.res,
                  src |-> txt.src, dst |-> txt.dst, msg |-> txt.msg, topic |-> txt.topic,
                  wrap |-> wrap,
                  src2 |-> node(wrap.held.source), dst2 |-> node(wrap.held.destination),
                  msg2 |-> IF ~wrap.ok THEN <<>>
                           ELSE IF txt.kind = "sms" THEN SMSBundle_msg(wrap.held)
                           ELSE NewsBundle_msg(wrap.held)]
    /\ TextFrame

TextNext == TextNewSms \/ TextNewNews \/ TextRead \/ TextWire

SpecText == TextInit /\ [][TextNext]_vars

\* C7: with either compression setting, the message (and the topic of a post)
\* read back from the envelope that new_sms / new_news built is exactly the
\* text that was given, and the factories accept every text.
C7_TextRoundTrip ==
    /\ txt.phase = "built" => IsOk(txt.res)
    /\ txt.phase = "read" => txt.msg = txt.t /\ txt.topic = txt.t2
    /\ txt.phase = "input" => smaz_decompress(smaz_compress(txt.t)) = [ok |-> TRUE, bytes |-> txt.t]

\* a compressed short message whose stored bytes differ from its text, with
\* dictionary and verbatim parts, has been read back
C7_Witness ==
    /\ txt.phase = "read" /\ txt.kind = "sms" /\ txt.comp
    /\ txt.t = <<116, 104, 113>>
    /\ SMSBundle_sms(txt.res[2]).msg = <<17, 254, 113>>
    /\ txt.msg = txt.t

(***************************************************************************)
(* SpecLoc: a Location or a LocationBlockData value is written with        *)
(* serde_cbor::to_vec and read back with serde_cbor::from_slice, and a     *)
(* LocationBlockData is put into a canonical block, the block is written   *)
(* and read back, and the data is taken out of it.                         *)
(***************************************************************************)
BlockNumbers == 0..MaxBlockNo
Addresses == SeqsUpTo({116}, MaxAddrLen)
Radii == 0..MaxRadius
Locations ==
    {LatLon(c) : c \in F32Vals \X F32Vals} \cup {XY(c) : c \in F32Vals \X F32Vals}
    \cup {Human(a) : a \in Addresses} \cup {WFW(a) : a \in Addresses}
TraceNodes == {DtnNone, with_dtn(N_node1, S_sms), with_ipn(1, 767)}
BlockDatas ==
    {Position(i, l) : i \in NodeTypeFlags_values, l \in Locations}
    \cup {FenceEllipse(l, r[1], r[2]) : l \in Locations, r \in Radii \X Radii}
    \cup {FenceRect(l[1], l[2]) : l \in Locations \X Locations}
    \cup {Trace(i, n, l) : i \in NodeTypeFlags_values, n \in TraceNodes, l \in Locations}

LocFrame ==
    UNCHANGED <<bundle, wrapS, wrapN, rewrap, posts, lastTs, now, panicked, txt, sb, nb, built,
                reads, gps>>

LocInit ==
    /\ locv \in {[phase |-> "input", kind |-> "loc", v |-> v] : v \in Locations}
                \cup {[phase |-> "input", kind |-> "block", v |-> v] : v \in BlockDatas}
                \cup {[phase |-> "input", kind |-> "cblock", v |-> v, n |-> n] :
                         v \in BlockDatas, n \in BlockNumbers}
    /\ WrapIdle /\ ThreadIdle /\ TextIdle /\ BuildIdle
    /\ OthersIdle

\* serde_cbor::to_vec(&loc)
LocEncode ==
    /\ locv.phase = "input" /\ locv.kind = "loc"
    /\ locv' = [phase |-> "encoded", kind |-> "loc", v |-> locv.v,
                enc |-> Location_to_cbor(locv.v)]
    /\ LocFrame

\* serde_cbor::from_slice::<Location>(&buf)
LocDecode ==
    /\ locv.phase = "encoded" /\ locv.kind = "loc"
    /\ locv' = [phase |-> "decoded", kind |-> "loc", v |-> locv.v, enc |-> locv.enc,
                dec |-> Location_from_cbor(locv.enc)]
    /\ LocFrame

\* serde_cbor::to_vec(&data)
BlockEncode ==
    /\ locv.phase = "input" /\ locv.kind = "block"
    /\ locv' = [phase |-> "encoded", kind |-> "block", v |-> locv.v,
                enc |-> LocationBlockData_to_cbor(locv.v)]
    /\ LocFrame

\* serde_cbor::from_slice::<LocationBlockData>(&buf)
BlockDecode ==
    /\ locv.phase = "encoded" /\ locv.kind = "block"
    /\ locv' = [phase |-> "decoded", kind |-> "block", v |-> locv.v, enc |-> locv.enc,
                dec |-> LocationBlockData_from_cbor(locv.enc)]
    /\ LocFrame

\* new_location_block(n, data)
CblockNew ==
    /\ locv.phase = "input" /\ locv.kind = "cblock"
    /\ locv' = [phase |-> "made", kind |-> "cblock", v |-> locv.v, n |-> locv.n,
                cblock |-> new_location_block(locv.n, locv.v)]
    /\ LocFrame

\* let buf = cblock.to_cbor(); let cblock2 = serde_cbor::from_slice(&buf)
CblockCode ==
    /\ locv.phase = "made" /\ locv.kind = "cblock"
    /\ locv' = [phase |-> "coded", kind |-> "cblock", v |-> locv.v, n |-> locv.n,
                cblock |-> locv.cblock,
                cblock2 |-> CanonicalBlock_from_cbor(CanonicalBlock_to_cbor(locv.cblock))]
    /\ LocFrame

\* get_location_data(&cblock2)
CblockGet ==
    /\ locv.phase = "coded" /\ locv.kind = "cblock"
    /\ locv' = [phase |-> "got", kind |-> "cblock", v |-> locv.v, n |-> locv.n,
                cblock |-> locv.cblock, cblock2 |-> locv.cblock2,
                dec |-> get_location_data(locv.cblock2)]
    /\ LocFrame

LocNext ==
    LocEncode \/ LocDecode \/ BlockEncode \/ BlockDecode \/ CblockNew \/ CblockCode \/ CblockGet

SpecLoc == LocInit /\ [][LocNext]_vars

LocDecoded == locv.phase = "decoded" /\ locv.kind = "loc"
BlockDecoded == locv.phase = "decoded" /\ locv.kind = "block"
HasNaN(loc) == HasCoords(loc) /\ (loc.coords[1] = "NaN" \/ loc.coords[2] = "NaN")
BlockHasNaN(d) == HasNaN(d.coords) \/ (d.variant = "FenceRect" /\ HasNaN(d.coords2))

\* C8 as stated: decoding the encoding of any Location yields a value equal to
\* it, of the same variant.
C8_LocationRoundTrip ==
    LocDecoded =>
        /\ locv.dec.ok
        /\ locv.dec.val.variant = locv.v.variant
        /\ Location_eq(locv.dec.val, locv.v)

\* C8: decoding the encoding of any Location succeeds and yields a value of
\* the same variant with the same address or coordinates; the value is equal
\* to the original under Location's == exactly when no coordinate is a NaN.
C8_RoundTripUnlessNaN ==
    LocDecoded =>
        /\ locv.dec.ok
        /\ locv.dec.val.variant = locv.v.variant
        /\ locv.dec.val.coords = locv.v.coords
        /\ locv.dec.val.address = locv.v.address
        /\ (Location_eq(locv.dec.val, locv.v) <=> ~HasNaN(locv.v))

\* an XY value with a single-precision and an infinite coordinate has been
\* written and read back equal
C8_Witness ==
    /\ LocDecoded
    /\ locv.v = XY(<<"0.1", "inf">>)
    /\ locv.enc[2][2] = <<"array", << <<"f32", "0.1">>, <<"f16", "inf">> >> >>
    /\ Location_eq(locv.dec.val, locv.v)

\* C9 as stated: decoding the encoding of any LocationBlockData yields a value
\* equal to it.
C9_BlockRoundTrip ==
    BlockDecoded => locv.dec.ok /\ LocationBlockData_eq(locv.dec.val, locv.v)

\* C9: decoding the encoding of any LocationBlockData, with any combination of
\* the recognized flags and any nested Location, succeeds and yields the same
\* variant, flags, node, radii and nested Locations; the value is equal to the
\* original under == exactly when no nested coordinate is a NaN.
C9_BlockRoundTripUnlessNaN ==
    BlockDecoded =>
        /\ locv.dec.ok
        /\ locv.dec.val = locv.v
        /\ (LocationBlockData_eq(locv.dec.val, locv.v) <=> ~BlockHasNaN(locv.v))

\* a FenceRect with two different corners of different variants has been
\* written and read back equal
C9_Witness ==
    /\ BlockDecoded
    /\ locv.v = FenceRect(LatLon(<<"23.0", "0.1">>), Human(<<116>>))
    /\ LocationBlockData_eq(locv.dec.val, locv.v)

(***************************************************************************)
(* SpecNews: one process posts with new_news, replies with reply_news to   *)
(* posts it holds, and takes in posts from the network that                *)
(* NewsBundle::try_from accepts.  posts[i].parent is the index of the post *)
(* that posts[i] was made a reply to, 0 for a post that is no reply made   *)
(* here.                                                                   *)
(***************************************************************************)

\* bp7's CreationTimestamp::now(): the clock reading and a sequence number
\* that counts the calls made at one reading; last is the stamp handed out
\* by the call before
CreationTimestamp_now(last, clock) ==
    IF clock # last[1] THEN <<clock, 0>> ELSE <<clock, last[2] + 1>>

T_th == <<116, 104>>
PostTopics == {T_th}
PostTags == {<<>>, <<T_t, T_q>>}

\* posts other nodes sent: the topic is readable, is no UTF-8, inflates to
\* bytes that are no UTF-8, or does not inflate
RecvTopics == {<<FALSE, <<17>> >>, <<FALSE, <<254>> >>, <<TRUE, <<254, 255>> >>,
               <<TRUE, <<254>> >>}
RecvPosts ==
    {Bundle_new(with_dtn(N_node2, S_sms), with_dtn(N_group, S_tnews), <<0, 1>>,
                Some(News_to_cbor([DefaultNews EXCEPT !.comp = ct[1], !.topic = ct[2],
                                                      !.tid = 1, !.tags = <<T_t>>]))) :
        ct \in RecvTopics}
    \cup {Bundle_new(with_ipn(1, 767), with_ipn(2, 119), <<0, 1>>,
                     Some(News_to_cbor([DefaultNews EXCEPT !.topic = T_q, !.tid = 1,
                                                           !.references = Some(T_t)])))}

NewsFrame ==
    UNCHANGED <<bundle, wrapS, wrapN, rewrap, txt, locv, sb, nb, built,
                reads, gps>>

NewsInit == WrapIdle /\ ThreadIdle /\ TextIdle /\ LocIdle /\ BuildIdle /\ OthersIdle

\* the clock advances
NewsTick ==
    /\ ~panicked /\ now < MaxTime
    /\ now' = now + 1
    /\ UNCHANGED <<posts, lastTs, panicked>>
    /\ NewsFrame

\* new_news("n1", "g", topic, thread_id, None, "t", tags, compression)
NewsPost ==
    /\ ~panicked /\ Len(posts) < MaxPosts
    /\ \E topic \in PostTopics, tags \in PostTags, comp \in BOOLEAN,
          thread_id \in {NoneV} \cup {Some(u) : u \in GivenUuids}, fresh \in FreshUuids :
          LET ts == CreationTimestamp_now(lastTs, now)
              r == new_news(N_node1, N_group, topic, thread_id, NoneV, T_t, tags, comp,
                            ts, fresh)
          IN /\ lastTs' = ts
             /\ IF IsOk(r)
                THEN posts' = Append(posts, [b |-> r[2], parent |-> 0]) /\ panicked' = FALSE
                ELSE posts' = posts /\ panicked' = IsPanic(r)
    /\ UNCHANGED now
    /\ NewsFrame

\* reply_news(&posts[i], "n2", "q", compression); build() draws no uuid, the
\* thread id being set by reply_to
NewsReply ==
    /\ ~panicked /\ Len(posts) < MaxPosts
    /\ \E i \in 1..Len(posts), comp \in BOOLEAN :
          LET ts == CreationTimestamp_now(lastTs, now)
              r == reply_news(posts[i].b, N_node2, T_q, comp, ts, 0)
          IN /\ lastTs' = ts
             /\ IF IsOk(r)
                THEN posts' = Append(posts, [b |-> r[2], parent |-> i]) /\ panicked' = FALSE
                ELSE posts' = posts /\ panicked' = IsPanic(r)
    /\ UNCHANGED now
    /\ NewsFrame

\* NewsBundle::try_from(bundle) on a bundle another node sent
NewsReceive ==
    /\ ~panicked /\ Len(posts) < MaxPosts
    /\ \E b \in RecvPosts :
          /\ NewsBundle_try_from(b).ok
          /\ posts' = Append(posts, [b |-> b, parent |-> 0])
    /\ UNCHANGED <<lastTs, now, panicked>>
    /\ NewsFrame

NewsNext == NewsTick \/ NewsPost \/ NewsReply \/ NewsReceive

SpecNews == NewsInit /\ [][NewsNext]_vars

\* the post at the start of the chain of replies that leads to posts[i]
RECURSIVE Root(_)
Root(i) == IF posts[i].parent = 0 THEN i ELSE Root(posts[i].parent)

Replies == {i \in 1..Len(posts) : posts[i].parent # 0}

\* C1: every reply R that reply_news made to a validated post P, whatever the
\* compression flags of P and R, has the topic, the thread id and the tags (in
\* order) of P and references the bundle id of P.
C1_ReplyLinkage ==
    \A i \in Replies :
        LET R == posts[i].b
            P == posts[posts[i].parent].b
        IN /\ NewsBundle_topic(R) = NewsBundle_topic(P)
           /\ NewsBundle_tid(R) = NewsBundle_tid(P)
           /\ NewsBundle_tags(R) = NewsBundle_tags(P)
           /\ NewsBundle_references(R) = Some(NewsBundle_id(P))

\* an uncompressed reply to a compressed post with two tags: the stored topic
\* bytes differ, the topics read back agree
C1_Witness ==
    \E i \in Replies :
        LET R == posts[i].b
            P == posts[posts[i].parent].b
        IN /\ NewsBundle_news(P).comp /\ ~NewsBundle_news(R).comp
           /\ NewsBundle_news(P).topic = <<17>>
           /\ NewsBundle_news(R).topic = T_th
           /\ NewsBundle_topic(R) = T_th
           /\ NewsBundle_tags(R) = <<T_t, T_q>>
           /\ NewsBundle_references(R) = Some(NewsBundle_id(P))

\* C2: every post reached from a root post through replies, and replies to
\* replies, carries the thread id of the root, and the reference of each reply
\* is the bundle id of its direct parent.
C2_ThreadStable ==
    \A i \in Replies :
        /\ NewsBundle_tid(posts[i].b) = NewsBundle_tid(posts[Root(i)].b)
        /\ NewsBundle_references(posts[i].b) = Some(NewsBundle_id(posts[posts[i].parent].b))

\* a reply to a reply: its reference is the id of the reply it answers, which
\* is not the id of the root, and its thread id is the one generated for the
\* root
C2_Witness ==
    \E i \in Replies :
        LET p == posts[i].parent
        IN /\ posts[p].parent # 0 /\ Root(i) # p
           /\ NewsBundle_id(posts[p].b) # NewsBundle_id(posts[Root(i)].b)
           /\ NewsBundle_references(posts[i].b) = Some(NewsBundle_id(posts[p].b))
           /\ NewsBundle_tid(posts[Root(i)].b) \in FreshUuids
           /\ NewsBundle_tid(posts[i].b) = NewsBundle_tid(posts[Root(i)].b)

I_text == <<"text", <<116>> >>
I_coords == <<"array", << <<"f16", "0.0">>, <<"f32", "0.1">> >> >>
I_human == <<"array", << <<"uint", 2>>, I_text>> >>
I_none == <<"array", << <<"uint", 1>>, <<"uint", 0>> >> >>   \* dtn:none, also a pair of integers

DiscItems ==
    {<<"uint", n>> : n \in {0, 1, 2, 3, 4, 5, 256}} \cup {<<"nint", 1>>, I_text}
FieldItems ==
    {<<"uint", 1>>, <<"uint", 33>>, <<"uint", 65535>>, <<"uint", 65536>>, I_text, <<"bytes", <<116>> >>,
     <<"bytes", <<255>> >>, I_coords, <<"array", << <<"f16", "0.0">> >> >>, I_human, I_none}
RecvItems ==
    {<<"array", <<>> >>, <<"uint", 1>>, I_text}
    \cup {<<"array", <<d>> \o fs>> : d \in DiscItems, fs \in SeqsUpTo(FieldItems, MaxFields)}

DecodeFrame ==
    UNCHANGED <<bundle, wrapS, wrapN, rewrap, posts, lastTs, now, panicked, txt, sb, nb, built,
                reads, gps>>

DecodeInit ==
    /\ locv \in {[phase |-> "item", enc |-> it] : it \in RecvItems}
    /\ WrapIdle /\ ThreadIdle /\ TextIdle /\ BuildIdle
    /\ OthersIdle

\* serde_cbor::from_slice::<Location>(&buf)
ReadLocation ==
    /\ locv.phase = "item"
    /\ locv' = [phase |-> "read", kind |-> "loc", enc |-> locv.enc,
                dec |-> Location_from_cbor(locv.enc)]
    /\ DecodeFrame

\* serde_cbor::from_slice::<LocationBlockData>(&buf)
ReadBlock ==
    /\ locv.phase = "item"
    /\ locv' = [phase |-> "read", kind |-> "block", enc |-> locv.enc,
                dec |-> LocationBlockData_from_cbor(locv.enc)]
    /\ DecodeFrame

\* the block types and the forms of block data that a canonical block handed
\* to get_location_data may have: the payload block, an extension block of
\* another application, and the location block
CblockTypes == {1, 192, LOCATION_BLOCK}
CblockKinds == {"Unknown", "Data"}

\* get_location_data(&cblock) on a block that holds the bytes received
ReadCblock ==
    /\ locv.phase = "item"
    /\ \E t \in CblockTypes, k \in CblockKinds :
          LET cblock == new_canonical_block(t, 1, 0, <<k, locv.enc>>)
          IN locv' = [phase |-> "taken", kind |-> "cblock", enc |-> locv.enc,
                      cblock |-> cblock, dec |-> get_location_data(cblock)]
    /\ DecodeFrame

DecodeNext == ReadLocation \/ ReadBlock \/ ReadCblock

SpecDecode == DecodeInit /\ [][DecodeNext]_vars

IsSeqItem(it) == it[1] = "array" /\ Len(it[2]) > 0
IsInt(it) == it[1] = "uint" \/ it[1] = "nint"
KnownDisc(it) == it[1] = "uint" /\ it[2] \in 1..4

\* C13: a sequence whose leading discriminant is an integer other than 1..4
\* is not decoded, as a Location or as a LocationBlockData, whatever follows
\* the discriminant: decoding fails with the invalid-value (unknown variant)
\* error.
C13_UnknownDiscriminant ==
    locv.phase = "read" /\ IsSeqItem(locv.enc) /\ IsInt(locv.enc[2][1])
        /\ ~KnownDisc(locv.enc[2][1])
        => ~locv.dec.ok /\ locv.dec.err = "InvalidValue"

\* discriminant 5 followed by the fields of a well-formed Position
C13_Witness ==
    /\ locv.phase = "read" /\ locv.kind = "block"
    /\ locv.enc = <<"array", << <<"uint", 5>>, <<"uint", 1>>, I_human>> >>
    /\ LocationBlockData_from_cbor(<<"array", << <<"uint", 1>>, <<"uint", 1>>, I_human>> >>).ok
    /\ ~locv.dec.ok /\ locv.dec.err = "InvalidValue"


\* the fields a variant requires after the discriminant, for either decoder
LocationShapes(variant) ==
    IF variant \in {"LatLon", "XY"} THEN <<"coords">> ELSE <<"string">>
ReadShapes ==
    IF locv.kind = "loc"
    THEN LocationShapes(Unwrap(LocationType_try_from(locv.enc[2][1][2])))
    ELSE VariantShapes(Unwrap(LocationBlockType_try_from(locv.enc[2][1][2])))
ReadErr(it, shape) ==
    CASE shape = "coords" -> CoordsErr(it)
      [] shape = "string" -> StringErr(it)
      [] OTHER -> FieldErr(it, shape)

\* the shape a field has on the wire when the encoder of this crate wrote it:
\* a pair of floats, a text string, an unsigned integer; a nested Location or
\* EndpointID is a sequence with a decoding of its own
WireShape(it, shape) ==
    CASE shape = "coords" -> it[1] = "array" /\ Len(it[2]) = 2
                             /\ IsFloat(it[2][1]) /\ IsFloat(it[2][2])
      [] shape = "string" -> it[1] = "text"
      [] shape \in {"u16", "u64"} -> it[1] = "uint"
      [] OTHER -> it[1] = "array"

\* the fields that are both required and present
Present(seq, shapes) ==
    1..(IF Len(seq) - 1 < Len(shapes) THEN Len(seq) - 1 ELSE Len(shapes))
MisShaped(seq, shapes) ==
    {k \in Present(seq, shapes) :
        /\ ~WireShape(seq[k + 1], shapes[k])
        /\ \A j \in 1..(k - 1) : ReadErr(seq[j + 1], shapes[j]) = "Ok"}

\* C14 as stated: with a discriminant in 1..4, a sequence that is empty or
\* has fewer fields than the variant requires fails as truncated
\* (invalid length), a field of the wrong wire shape fails as a type mismatch
\* (invalid type), and a sequence with more fields than required yields no
\* value.
C14_ExactFields ==
    /\ locv.phase = "read" /\ locv.enc = <<"array", <<>> >>
          => ~locv.dec.ok /\ locv.dec.err = "InvalidLength"
    /\ locv.phase = "read" /\ IsSeqItem(locv.enc) /\ KnownDisc(locv.enc[2][1]) =>
          LET seq == locv.enc[2]
              shapes == ReadShapes
          IN /\ (Len(seq) - 1 < Len(shapes)
                   /\ \A k \in Present(seq, shapes) : ReadErr(seq[k + 1], shapes[k]) = "Ok")
                  => ~locv.dec.ok /\ locv.dec.err = "InvalidLength"
             /\ MisShaped(seq, shapes) # {}
                  => ~locv.dec.ok /\ locv.dec.err = "InvalidType"
             /\ Len(seq) - 1 > Len(shapes) => ~locv.dec.ok

\* the parts of C14 that hold: truncated and over-long sequences
C14_CountEnforced ==
    /\ locv.phase = "read" /\ locv.enc = <<"array", <<>> >>
          => ~locv.dec.ok /\ locv.dec.err = "InvalidLength"
    /\ locv.phase = "read" /\ IsSeqItem(locv.enc) /\ KnownDisc(locv.enc[2][1]) =>
          LET seq == locv.enc[2]
              shapes == ReadShapes
          IN /\ (Len(seq) - 1 < Len(shapes)
                   /\ \A k \in Present(seq, shapes) : ReadErr(seq[k + 1], shapes[k]) = "Ok")
                  => ~locv.dec.ok /\ locv.dec.err = "InvalidLength"
             /\ Len(seq) - 1 > Len(shapes) => ~locv.dec.ok

\* a LatLon whose coordinates are the integers 1 and 0, and a Human whose
\* address is a byte string, are read as values
C14_IntCoordsRead ==
    /\ locv.phase = "read" /\ locv.kind = "loc"
    /\ locv.enc = <<"array", << <<"uint", 1>>, I_none>> >>
    /\ locv.dec.ok


\* the value of the other variant that has the same wire shape and content
Twin(loc) ==
    CASE loc.variant = "LatLon" -> XY(loc.coords)
      [] loc.variant = "XY" -> LatLon(loc.coords)
      [] loc.variant = "Human" -> WFW(loc.address)
      [] loc.variant = "WFW" -> Human(loc.address)

\* C15: the encoding of a LatLon and of the XY with the same coordinates (and
\* of a Human and of the WFW with the same string) are two-element sequences
\* that differ in the discriminant and in nothing else, and the encoding of
\* each is read back as its own variant, never as the other one.
C15_DistinctDiscriminants ==
    locv.kind = "loc" /\ locv.phase \in {"encoded", "decoded"} =>
        LET mine == locv.enc[2]
            other == Location_to_cbor(Twin(locv.v))[2]
        IN /\ Len(mine) = 2 /\ Len(other) = 2
           /\ mine[1] # other[1]
           /\ mine[2] = other[2]
           /\ locv.phase = "decoded" =>
                 /\ locv.dec.ok
                 /\ locv.dec.val.variant = locv.v.variant
                 /\ locv.dec.val.variant # Twin(locv.v).variant
                 /\ Location_from_cbor(<<"array", other>>).val.variant = Twin(locv.v).variant

\* an XY has been written with discriminant 4 and read back as XY, while the
\* LatLon of the same coordinates is written with discriminant 1
C15_Witness ==
    /\ LocDecoded
    /\ locv.v = XY(<<"23.0", "0.1">>)
    /\ locv.enc[2][1] = <<"uint", 4>>
    /\ Location_to_cbor(LatLon(<<"23.0", "0.1">>))[2][1] = <<"uint", 1>>
    /\ locv.dec.val.variant = "XY"


\* C16 as stated: no call of a factory raises a panic.
C16_NoPanic == ~panicked


\* C17: the record build() returns has the compression flag of the builder
\* and stores the message, and for a post the topic too, as smaz_compress of
\* the text when that flag is set and as the bytes of the text when it is not.
C17_BuildCompresses ==
    built.kind # "none" /\ IsOk(built.res) =>
        LET rec == built.res[2]
            b == built.from
        IN /\ rec.comp = b.comp
           /\ rec.msg = (IF b.comp THEN smaz_compress(Unwrap(b.msg)) ELSE Unwrap(b.msg))
           /\ built.kind = "news" =>
                 rec.topic = (IF b.comp THEN smaz_compress(Unwrap(b.topic))
                              ELSE Unwrap(b.topic))

\* a post built with compression on: the topic "t" is stored as its one-byte
\* code and the message "q", which has no code, as a verbatim run
C17_Witness ==
    /\ built.kind = "news" /\ IsOk(built.res)
    /\ built.from.comp /\ built.res[2].comp
    /\ built.from.topic = Some(T_t) /\ built.res[2].topic = <<3>>
    /\ built.from.msg = Some(T_q) /\ built.res[2].msg = <<254, 113>>


\* a Position or Trace sequence whose flags field is an unsigned integer
FlaggedItem(it) ==
    /\ IsSeqItem(it) /\ it[2][1] \in {<<"uint", 1>>, <<"uint", 4>>}
    /\ Len(it[2]) >= 2 /\ it[2][2][1] = "uint"
UnknownBits(it) == it[2][2][2] \notin NodeTypeFlags_values
\* the same sequence with no flag set
Unflagged(it) == <<"array", [it[2] EXCEPT ![2] = <<"uint", 0>>]>>

\* C18 as stated: whatever integer with an unrecognized bit the flags field
\* holds, the record is read as it would be with no flag set.
C18_UnknownBitsIgnored ==
    locv.phase = "read" /\ locv.kind = "block" /\ FlaggedItem(locv.enc)
        /\ UnknownBits(locv.enc)
        => locv.dec = LocationBlockData_from_cbor(Unflagged(locv.enc))

\* C18: a Position or Trace whose flags field is an unsigned integer of at
\* most 16 bits with a bit outside the five recognized ones is read exactly
\* as the same sequence with flags 0 is read: when the other fields decode,
\* the result is the record with the empty flag set; a flags integer that
\* does not fit 16 bits fails the decode with the invalid-value error.
C18_UnknownBitsOf16 ==
    locv.phase = "read" /\ locv.kind = "block" /\ FlaggedItem(locv.enc)
        /\ UnknownBits(locv.enc)
        => IF locv.enc[2][2][2] < 65536
           THEN /\ locv.dec = LocationBlockData_from_cbor(Unflagged(locv.enc))
                /\ locv.dec.ok => locv.dec.val.info = 0
           ELSE ~locv.dec.ok /\ locv.dec.err = "InvalidValue"

\* a Trace with flags 33 (mobile and an unknown bit) has been read as a Trace
\* with no flag, its node and Location as written
C18_Witness ==
    /\ locv.phase = "read" /\ locv.kind = "block"
    /\ locv.enc = <<"array", << <<"uint", 4>>, <<"uint", 33>>, I_none, I_human>> >>
    /\ locv.dec.ok
    /\ locv.dec.val = Trace(0, DtnNone, Human(<<116>>))


\* C19: no bundle, whatever the schemes of its source and destination, is
\* accepted by SMSBundle::try_from and by NewsBundle::try_from.
C19_OneKind ==
    ~(wrapS.done /\ wrapS.ok /\ wrapN.done /\ wrapN.ok)

\* a bundle from an ipn source to a dtn group whose payload reads both as an
\* SMS record and as a News record has been accepted as a post and rejected
\* as a short message, for its destination only
C19_Witness ==
    /\ wrapN.done /\ wrapN.ok /\ wrapS.done /\ ~wrapS.ok
    /\ bundle.source.t = "ipn" /\ bundle.destination.t = "dtn"
    /\ SMSBundle_payload_valid(bundle) = "Ok"
    /\ SMSBundle_is_eid_valid(bundle.source) = "Ok"
    /\ SMSBundle_is_eid_valid(bundle.destination) = "InvalidEndpoint"


CblockGot == locv.phase = "got" /\ locv.kind = "cblock"

\* C20 as stated: the block made for any number and data has type 223, is
\* read back unchanged from its encoding, and get_location_data on the block
\* read back returns a value equal to the data.
C20_BlockCarriesData ==
    CblockGot =>
        /\ locv.cblock.block_type = 223
        /\ locv.cblock2 = locv.cblock
        /\ locv.dec.ok /\ LocationBlockData_eq(locv.dec.val, locv.v)

\* C20: the block made for any number and data has type 223 and that number,
\* is read back unchanged from its encoding, and get_location_data on the
\* block read back succeeds with the variant, flags, node, radii and nested
\* Locations of the data; the value is equal to the data under == exactly
\* when no nested coordinate is a NaN.
C20_BlockCarriesUnlessNaN ==
    CblockGot =>
        /\ locv.cblock.block_type = 223 /\ locv.cblock.block_number = locv.n
        /\ locv.cblock2 = locv.cblock
        /\ locv.dec.ok /\ locv.dec.val = locv.v
        /\ (LocationBlockData_eq(locv.dec.val, locv.v) <=> ~BlockHasNaN(locv.v))

\* the Position of the crate's test, carried in block number 1, has been
\* taken out of the block read back
C20_Witness ==
    /\ CblockGot /\ locv.n = 1
    /\ locv.v = Position(1, LatLon(<<"23.0", "0.1">>))
    /\ locv.cblock2.data[1] = "Unknown"
    /\ LocationBlockData_eq(locv.dec.val, locv.v)


\* what src() and dst() are to return for the inputs of the factory: the
\* decimal digits of a node number, the name of a node or group
TextEnd(i) ==
    IF txt.kind = "sms" THEN Some(Decimal(txt.ends[i])) ELSE Some(txt.ends[i])

\* C21: the envelope new_sms or new_news returns passes validation, its
\* src(), dst() and msg() return the source node, the destination node or
\* group and the message given to the factory, and the envelope read back
\* from its wire bytes passes validation and returns the same three values.
C21_EnvelopeReturnsInputs ==
    /\ txt.phase = "built" =>
          /\ IsOk(txt.res)
          /\ IF txt.kind = "sms" THEN SMSBundle_try_from(txt.res[2]).ok
             ELSE NewsBundle_try_from(txt.res[2]).ok
    /\ txt.phase \in {"read", "wired"} =>
          txt.src = TextEnd(1) /\ txt.dst = TextEnd(2) /\ txt.msg = txt.t
    /\ txt.phase = "wired" =>
          /\ txt.wrap.ok /\ txt.wrap.held = txt.res[2]
          /\ txt.src2 = TextEnd(1) /\ txt.dst2 = TextEnd(2) /\ txt.msg2 = txt.t

\* a compressed short message from node 23 to node 1 has been built, written
\* to the wire and read back: src() is "23", dst() is "1"
C21_Witness ==
    /\ txt.phase = "wired" /\ txt.kind = "sms" /\ txt.comp
    /\ txt.ends = <<23, 1>>
    /\ txt.t = <<116, 104, 113>>
    /\ txt.wrap.ok
    /\ txt.src2 = Some(<<50, 51>>) /\ txt.dst2 = Some(<<49>>)
    /\ txt.msg2 = txt.t


(***************************************************************************)
(* SpecRead: a bundle received from the network is wrapped with try_from   *)
(* and, when it is accepted, the read accessors of the envelope are called *)
(* in any order.  reads.log lists the calls made, each with what it        *)
(* returned: Ok(value), or Panic, which ends the run.                      *)
(***************************************************************************)
\* SMSBundle::is_pure / NewsBundle::is_pure
is_pure_SourceOnly(b, s) == scheme(b.source) = s
is_pure(b, s) == scheme(b.source) = s /\ scheme(b.destination) = s

BundleAccessors ==
    {"id", "src", "dst", "creation_timestamp", "is_pure(ipn)", "is_pure(dtn)"}
SmsAccessors == BundleAccessors \cup {"msg", "compression", "encryption", "signature"}
NewsAccessors == SmsAccessors \cup {"topic", "tid", "references", "tags"}
Accessors(kind) == IF kind = "sms" THEN SmsAccessors ELSE NewsAccessors

\* what the accessor k returns on the envelope that holds b
Accessor_out(kind, b, k) ==
    LET rec == IF kind = "sms" THEN SMSBundle_sms(b) ELSE NewsBundle_news(b)
    IN CASE k = "id" -> Ok(Bundle_id(b))
         [] k = "src" -> Ok(node(b.source))
         [] k = "dst" -> Ok(node(b.destination))
         [] k = "creation_timestamp" -> Ok(b.ts)
         [] k = "is_pure(ipn)" -> Ok(is_pure(b, "ipn"))
         [] k = "is_pure(dtn)" -> Ok(is_pure(b, "dtn"))
         [] k = "msg" -> IF ReadTextPanics(rec.comp, rec.msg) THEN Panic
                         ELSE Ok(ReadText(rec.comp, rec.msg))
         [] k = "topic" -> IF ReadTextPanics(rec.comp, rec.topic) THEN Panic
                           ELSE Ok(ReadText(rec.comp, rec.topic))
         [] k = "compression" -> Ok(rec.comp)
         [] k = "encryption" -> Ok(rec.enc)
         [] k = "signature" -> Ok(rec.sig)
         [] k = "tid" -> Ok(rec.tid)
         [] k = "references" -> Ok(rec.references)
         [] k = "tags" -> Ok(rec.tags)

\* mutant: reading the creation timestamp draws a new sequence number
Accessor_self_Restamped(b, k) ==
    IF k = "creation_timestamp" THEN [b EXCEPT !.ts = <<b.ts[1], b.ts[2] + 1>>] ELSE b

\* the bundle the envelope holds after the call: every accessor takes &self
Accessor_self(b, k) == b

ReadEnds ==
    {<<with_ipn(1, 767), with_ipn(2, 767)>>, <<with_ipn(1, 767), with_dtn(N_group, S_tsms)>>,
     <<with_dtn(N_node1, S_sms), with_ipn(2, 767)>>,
     <<with_dtn(N_node1, S_sms), with_dtn(N_node2, S_sms)>>,
     <<with_ipn(1, 767), with_ipn(2, 119)>>, <<with_ipn(1, 767), with_dtn(N_group, S_tnews)>>,
     <<with_dtn(N_node1, S_sms), with_ipn(2, 119)>>,
     <<with_dtn(N_node1, S_sms), with_dtn(N_group, S_tnews)>>}
ReadPayloads ==
    {SMS_to_cbor([comp |-> c, enc |-> FALSE, msg |-> <<3>>, sig |-> Some(<<1>>)]) :
        c \in BOOLEAN}
    \cup {News_to_cbor([DefaultNews EXCEPT !.comp = ct[1], !.topic = ct[2], !.msg = <<3>>,
                                           !.tid = 1, !.tags = <<T_t>>,
                                           !.references = Some(T_q)]) : ct \in RecvTopics}
ReadBundles ==
    {Bundle_new(e[1], e[2], <<1, 0>>, Some(p)) : e \in ReadEnds, p \in ReadPayloads}

ReadFrame ==
    UNCHANGED <<bundle, wrapS, wrapN, rewrap, posts, lastTs, now, panicked, txt, locv, sb, nb,
                built, gps>>

ReadInit ==
    /\ reads \in {[phase |-> "recv", kind |-> k, b |-> b] :
                     k \in {"sms", "news"}, b \in ReadBundles}
    /\ WrapIdle /\ ThreadIdle /\ TextIdle /\ LocIdle /\ BuildIdle
    /\ gps = NoGps

\* SMSBundle::try_from(b) / NewsBundle::try_from(b)
ReadAdmit ==
    /\ reads.phase = "recv"
    /\ LET wrap == IF reads.kind = "sms" THEN SMSBundle_try_from(reads.b)
                   ELSE NewsBundle_try_from(reads.b)
       IN reads' = [phase |-> IF wrap.ok THEN "held" ELSE "rejected", kind |-> reads.kind,
                    b |-> reads.b, held |-> wrap.held, log |-> <<>>]
    /\ ReadFrame

\* one call of a read accessor on the envelope
ReadCall ==
    /\ reads.phase = "held" /\ Len(reads.log) < MaxReads
    /\ \E k \in Accessors(reads.kind) :
          LET out == Accessor_out(reads.kind, reads.held, k)
          IN reads' = [reads EXCEPT !.phase = IF IsPanic(out) THEN "panicked" ELSE "held",
                                    !.held = Accessor_self(reads.held, k),
                                    !.log = Append(@, <<k, out>>)]
    /\ ReadFrame

ReadNext == ReadAdmit \/ ReadCall

SpecRead == ReadInit /\ [][ReadNext]_vars

Calls == 1..Len(reads.log)

Mixed(b) == scheme(b.source) # scheme(b.destination)

\* C23: on a validated envelope is_pure(s) returns true exactly when source
\* and destination both use scheme s; a bundle whose source and destination
\* use different schemes, each following its own convention, is accepted, and
\* is_pure returns false on it for ipn and for dtn.
C23_PureIffBothEnds ==
    /\ reads.phase = "held" =>
          \A i \in Calls :
              /\ reads.log[i][1] = "is_pure(ipn)" =>
                    reads.log[i][2] = Ok(reads.b.source.t = "ipn"
                                         /\ reads.b.destination.t = "ipn")
              /\ reads.log[i][1] = "is_pure(dtn)" =>
                    reads.log[i][2] = Ok(reads.b.source.t = "dtn"
                                         /\ reads.b.destination.t = "dtn")
              /\ Mixed(reads.b) /\ reads.log[i][1] \in {"is_pure(ipn)", "is_pure(dtn)"} =>
                    reads.log[i][2] = Ok(FALSE)
    /\ reads.phase = "rejected" /\ Mixed(reads.b) =>
          \/ reads.kind = "sms" /\ ~(SmsSrcConv(reads.b.source) /\ SmsDstConv(reads.b.destination)
                                      /\ SmsRecord(reads.b).ok)
          \/ reads.kind = "news" /\ ~(NewsSrcConv(reads.b.source)
                                       /\ NewsDstConv(reads.b.destination)
                                       /\ NewsRecord(reads.b).ok)

\* a short message from an ipn node to a dtn node has been accepted and is
\* pure neither for ipn nor for dtn
C23_Witness ==
    /\ reads.phase = "held" /\ reads.kind = "sms"
    /\ reads.b.source.t = "ipn" /\ reads.b.destination.t = "dtn"
    /\ Len(reads.log) = 2
    /\ reads.log[1] = <<"is_pure(ipn)", Ok(FALSE)>>
    /\ reads.log[2] = <<"is_pure(dtn)", Ok(FALSE)>>

\* C24 as stated: no call of a read accessor on a validated envelope panics.
C24_NoAccessorPanics == reads.phase # "panicked"

\* the accessors of a validated short message, and every accessor of a
\* validated post but topic(), return
C24_OnlyTopicPanics ==
    reads.phase = "panicked" =>
        /\ reads.kind = "news"
        /\ reads.log[Len(reads.log)][1] = "topic"


(***************************************************************************)
(* SpecChain: any sequence of NewsBuilder calls, reply_to among them,      *)
(* followed by build().  built.last keeps, for each of the four fields     *)
(* reply_to writes, what the calls made so far have written to it, taken   *)
(* from their arguments.                                                   *)
(***************************************************************************)
\* the validated post that reply_to is given: compressed, topic "th", thread
\* 1, one tag
ChainParent ==
    Bundle_new(with_dtn(N_node2, S_sms), with_dtn(N_group, S_tnews), <<0, 1>>,
               Some(News_to_cbor([DefaultNews EXCEPT !.comp = TRUE, !.topic = <<17>>,
                                                     !.msg = <<3>>, !.tid = 1,
                                                     !.tags = <<T_q>>])))
ChainTids == {4}
ChainRefs == {T_q}
ChainTagLists == {<<>>, <<T_th>>}

NothingWritten ==
    [topic |-> NoneV, thread_id |-> NoneV, references |-> NoneV, tags |-> <<>>]

ChainFrame ==
    UNCHANGED <<bundle, wrapS, wrapN, rewrap, posts, lastTs, now, panicked, txt, locv, sb,
                reads, gps>>

ChainInit ==
    /\ nb = NewsBuilder_new
    /\ built = [kind |-> "calls", last |-> NothingWritten]
    /\ sb = SmsBuilder_new
    /\ WrapIdle /\ ThreadIdle /\ TextIdle /\ LocIdle /\ OthersIdle

Calling == built.kind = "calls"

ChCompression ==
    /\ Calling
    /\ \E c \in BOOLEAN : nb' = NewsBuilder_compression(nb, c)
    /\ UNCHANGED built /\ ChainFrame
ChMessage ==
    /\ Calling
    /\ nb' = NewsBuilder_message(nb, T_q)
    /\ UNCHANGED built /\ ChainFrame
ChTopic ==
    /\ Calling
    /\ nb' = NewsBuilder_topic(nb, T_t)
    /\ built' = [built EXCEPT !.last.topic = Some(T_t)]
    /\ ChainFrame
ChThreadId ==
    /\ Calling
    /\ \E u \in ChainTids :
          /\ nb' = NewsBuilder_thread_id(nb, u)
          /\ built' = [built EXCEPT !.last.thread_id = Some(u)]
    /\ ChainFrame
ChReferences ==
    /\ Calling
    /\ \E r \in ChainRefs :
          /\ nb' = NewsBuilder_references(nb, r)
          /\ built' = [built EXCEPT !.last.references = Some(r)]
    /\ ChainFrame
ChTag ==
    /\ Calling /\ Len(nb.tags) <= MaxTags
    /\ nb' = NewsBuilder_tag(nb, T_t)
    /\ built' = [built EXCEPT !.last.tags = Append(@, T_t)]
    /\ ChainFrame
ChTags ==
    /\ Calling
    /\ \E ts \in ChainTagLists :
          /\ nb' = NewsBuilder_tags(nb, ts)
          /\ built' = [built EXCEPT !.last.tags = ts]
    /\ ChainFrame
\* reply_to(&parent); reply_news has checked that parent.topic() returns
ChReplyTo ==
    /\ Calling
    /\ nb' = NewsBuilder_reply_to(nb, ChainParent)
    /\ built' = [built EXCEPT !.last = [topic |-> Some(NewsBundle_topic(ChainParent)),
                                        thread_id |-> Some(NewsBundle_tid(ChainParent)),
                                        references |-> Some(NewsBundle_id(ChainParent)),
                                        tags |-> NewsBundle_tags(ChainParent)]]
    /\ ChainFrame
\* build(self): the builder is consumed
ChBuild ==
    /\ Calling
    /\ \E fresh \in FreshUuids :
          built' = [kind |-> "news", last |-> built.last, from |-> nb,
                    res |-> NewsBuilder_build(nb, fresh)]
    /\ UNCHANGED nb /\ ChainFrame

ChainNext ==
    \/ ChCompression \/ ChMessage \/ ChTopic \/ ChThreadId \/ ChReferences
    \/ ChTag \/ ChTags \/ ChReplyTo \/ ChBuild

SpecChain == ChainInit /\ [][ChainNext]_vars

\* C25: the record build() returns after any sequence of NewsBuilder calls
\* has, as topic, thread id, reference and tags, what the calls wrote last
\* to each: reply_to writes all four from the parent and so replaces tags
\* added before it, a setter called after reply_to replaces the parent's
\* value, and tag() called after reply_to appends to the parent's tags; a
\* thread id never written is generated.
C25_LastWriteWins ==
    built.kind = "news" /\ IsOk(built.res) =>
        LET rec == built.res[2]
        IN /\ rec.topic = Squeeze(rec.comp, Unwrap(built.last.topic))
           /\ IF IsSome(built.last.thread_id) THEN rec.tid = Unwrap(built.last.thread_id)
              ELSE rec.tid \in FreshUuids
           /\ rec.references = built.last.references
           /\ rec.tags = built.last.tags

\* tag("t"), then reply_to, then topic("t") and tag("t"): the record has the
\* topic set after reply_to, the parent's thread and reference, and the
\* parent's tag followed by the one added after reply_to
C25_Witness ==
    /\ built.kind = "news" /\ IsOk(built.res)
    /\ ~built.from.comp
    /\ built.res[2].topic = T_t
    /\ built.res[2].tid = 1
    /\ built.res[2].references = Some(NewsBundle_id(ChainParent))
    /\ built.res[2].tags = <<T_q, T_t>>


\* C26: a reply that reply_news made has the destination of its parent and
\* the source //<src_node_name>/sms, so every post reached through replies
\* has the destination of the root post; and reply_news on a validated parent
\* whose topic can be read builds a reply that validation accepts.
C26_ReplyAddresses ==
    /\ \A i \in Replies :
          LET R == posts[i].b
          IN /\ R.destination = posts[posts[i].parent].b.destination
             /\ R.destination = posts[Root(i)].b.destination
             /\ R.source = with_dtn(N_node2, S_sms)
             /\ NewsBundle_try_from(R).ok
    /\ \A i \in 1..Len(posts), comp \in BOOLEAN :
          LET P == posts[i].b
              r == reply_news(P, N_node2, T_q, comp, <<0, 0>>, 0)
          IN IF ReadTextPanics(NewsBundle_news(P).comp, NewsBundle_news(P).topic)
             THEN IsPanic(r)
             ELSE IsOk(r) /\ r[2].destination = P.destination

\* a reply to a reply to a received post addressed to ipn:2.119: both replies
\* come from dtn://n2/sms and go to ipn:2.119
C26_Witness ==
    \E i \in Replies :
        LET p == posts[i].parent
        IN /\ posts[p].parent # 0
           /\ posts[Root(i)].b.source = with_ipn(1, 767)
           /\ posts[Root(i)].b.destination = with_ipn(2, 119)
           /\ posts[i].b.destination = with_ipn(2, 119)
           /\ posts[i].b.source = with_dtn(N_node2, S_sms)
           /\ NewsBundle_try_from(posts[i].b).ok


GroupSms(eid) == eid.t = "dtn" /\ eid.svc = S_tsms

\* C27: SMSBundle::try_from accepts no bundle whose source is a non-singleton
\* endpoint: a source with the group service ~sms is rejected although
\* is_eid_valid passes it, while a bundle with a singleton source of the
\* convention, a readable payload and ~sms as destination is accepted.
C27_SingletonSource ==
    wrapS.done =>
        /\ wrapS.ok => ~is_non_singleton(bundle.source)
        /\ GroupSms(bundle.source) =>
              SMSBundle_is_eid_valid(bundle.source) = "Ok" /\ ~wrapS.ok
        /\ GroupSms(bundle.destination) /\ SmsSrcConv(bundle.source)
              /\ SMSBundle_payload_valid(bundle) = "Ok" => wrapS.ok

\* a bundle from the group address to a node, with a readable short message
\* and a destination that passes, has been rejected
C27_Witness ==
    /\ wrapS.done /\ ~wrapS.ok
    /\ GroupSms(bundle.source)
    /\ SMSBundle_is_eid_valid(bundle.destination) = "Ok"
    /\ SMSBundle_payload_valid(bundle) = "Ok"
    /\ SMSBundle_try_from(Bundle_new(bundle.destination, bundle.source, bundle.ts,
                                     bundle.payload)).ok


(***************************************************************************)
(* C28: get_location_data on any canonical block.                          *)
(***************************************************************************)
CblockRead == locv.phase = "taken" /\ locv.kind = "cblock"

\* the three conditions under which the block holds location data
CblockHolds(cblock) ==
    /\ cblock.block_type = LOCATION_BLOCK
    /\ cblock.data[1] = "Unknown"
    /\ LocationBlockData_from_cbor(cblock.data[2]).ok

\* C28: get_location_data answers with the invalid-location-block error, and
\* with no value, for every canonical block whose type is not 223, whose data
\* is not in the Unknown byte form, or whose bytes do not decode as a
\* LocationBlockData; it answers with the decoded value only when all three
\* conditions hold.
C28_ValueOnlyFromLocationBlock ==
    CblockRead =>
        IF CblockHolds(locv.cblock)
        THEN locv.dec.ok /\ locv.dec = LocationBlockData_from_cbor(locv.enc)
        ELSE locv.dec = BlockErr("InvalidLocationBlock")

\* a block of another type that holds bytes which do decode as a
\* LocationBlockData has been refused
C28_Witness ==
    /\ CblockRead
    /\ locv.cblock.block_type = 192
    /\ locv.cblock.data[1] = "Unknown"
    /\ LocationBlockData_from_cbor(locv.enc).ok
    /\ locv.dec = BlockErr("InvalidLocationBlock")


(***************************************************************************)
(* SpecGps: the main function of dtngpsreceiver.  It registers the         *)
(* endpoint, opens the websocket, asks for bundle mode, subscribes, and    *)
(* then reads messages in a loop.  What the daemon answers, and whether a  *)
(* request or a read fails, is chosen by the environment at each step.     *)
(* gps.sent is what the program has sent so far, gps.replies what it has   *)
(* read during the handshake, gps.log what became of each message read in  *)
(* the loop and gps.last the last read of the loop.                        *)
(***************************************************************************)
T_bundle == <<47, 98, 117, 110, 100, 108, 101>>                    \* "/bundle"
T_subscribe == <<47, 115, 117, 98, 115, 99, 114, 105, 98, 101, 32>>   \* "/subscribe "
T_mode_bundle ==
    <<50, 48, 48, 32, 116, 120, 32, 109, 111, 100, 101, 58, 32, 98, 117, 110, 100, 108, 101>>
T_subscribed == <<50, 48, 48, 32, 115, 117, 98, 115, 99, 114, 105, 98, 101, 100>>
T_mode_data == <<50, 48, 48, 32, 116, 120, 32, 109, 111, 100, 101, 58, 32, 100, 97, 116, 97>>
T_404 == <<52, 48, 52>>

\* mutant: only the length of the reply is compared
starts_with_LongEnough(s, prefix) == Len(s) >= Len(prefix)

\* str::starts_with
starts_with(s, prefix) ==
    Len(s) >= Len(prefix) /\ SubSeq(s, 1, Len(prefix)) = prefix

\* DtnWsConnection::read_text on the result of socket.read_message()
DtnWsConnection_read_text(got) ==
    IF IsErr(got) THEN got
    ELSE IF got[2][1] = "Text" THEN Ok(got[2][2])
    ELSE Err("Unexpected message type")

\* Bundle::try_from(bin) as far as main uses the bundle: the flags of the
\* primary block and the canonical blocks
Bundle_try_from(bin) ==
    IF bin[1] = "array" /\ Len(bin[2]) >= 2 /\ bin[2][1][1] = "array"
    THEN Ok([bundle_control_flags |-> bin[2][1][2][2][2],
             canonicals |-> [i \in 1..(Len(bin[2]) - 1) |->
                                CanonicalBlock_from_cbor(bin[2][i + 1])]])
    ELSE Err("Cbor")

\* Bundle::is_administrative_record: bit 1 of the bundle control flags
is_administrative_record(bndl) == (bndl.bundle_control_flags \div 2) % 2 = 1

\* Bundle::extension_block_by_type: the first canonical block of that type
extension_block_by_type(bndl, block_type) ==
    LET found == {i \in 1..Len(bndl.canonicals) : bndl.canonicals[i].block_type = block_type}
    IN IF found = {} THEN NoneV
       ELSE Some(bndl.canonicals[CHOOSE i \in found : \A j \in found : i <= j])

\* the body of handle_incoming_bundle after get_location_data: a Position
\* with a LatLon or an XY location is printed and, when -r is given, sent to
\* the REST endpoint; http is what becomes of that request: sent and
\* answered, not sent (the expect panics), or answered with a body that
\* cannot be read (text()? fails)
ReportPosition(loc_data, rest, http) ==
    IF ~loc_data.ok THEN "Err"
    ELSE IF loc_data.val.variant = "Position"
            /\ loc_data.val.coords.variant \in {"LatLon", "XY"} /\ rest
    THEN CASE http = "send_fails" -> "Panic"
           [] http = "text_fails" -> "Err"
           [] OTHER -> "Ok"
    ELSE "Ok"

\* handle_incoming_bundle(&bndl, rest, verbose)
handle_incoming_bundle(bndl, rest, http) ==
    LET cblock == extension_block_by_type(bndl, LOCATION_BLOCK)
    IN IF ~IsSome(cblock) THEN "Err"
       ELSE ReportPosition(get_location_data(Unwrap(cblock)), rest, http)

\* the inputs: the endpoint given with -e, whether -r is given, what the
\* daemon sends, and how a request to the REST endpoint ends
GpsEndpoints == {<<105, 110>>, <<47, 103>>}                        \* "in", "/g"
HttpOutcomes == {"ok", "send_fails", "text_fails"}
GpsReplies ==
    {T_mode_bundle, T_mode_bundle \o <<33>>, SubSeq(T_mode_bundle, 1, Len(T_mode_bundle) - 1),
     T_mode_data, T_subscribed, T_subscribed \o <<32, 105, 110>>, T_404}

PrimaryItem(flags) ==
    <<"array", << <<"uint", 7>>, <<"uint", flags>>, <<"uint", 0>>, Eid_to_cbor(DtnNone),
                  Eid_to_cbor(DtnNone), Eid_to_cbor(DtnNone),
                  <<"array", << <<"uint", 0>>, <<"uint", 0>> >> >>, <<"uint", 3600000>> >> >>
PayloadBlockItem == CanonicalBlock_to_cbor(new_canonical_block(1, 1, 0, <<"Data", <<"bytes", <<104>> >> >>))
LocationItem(data) == CanonicalBlock_to_cbor(new_location_block(2, data))
BrokenLocationItem ==
    CanonicalBlock_to_cbor(new_canonical_block(LOCATION_BLOCK, 2, 0, <<"Unknown", <<"invalid">> >>))
GpsBlockLists ==
    {<<PayloadBlockItem>>, <<BrokenLocationItem, PayloadBlockItem>>,
     <<LocationItem(Position(1, LatLon(<<"23.0", "0.1">>))), PayloadBlockItem>>,
     <<LocationItem(Position(0, XY(<<"0.0", "23.0">>))), PayloadBlockItem>>,
     <<LocationItem(Position(0, Human(<<116>>))), PayloadBlockItem>>,
     <<LocationItem(FenceEllipse(LatLon(<<"0.0", "0.0">>), 1, 1)), PayloadBlockItem>>}
GpsBinaries ==
    {<<"invalid">>}
    \cup {<<"array", <<PrimaryItem(f)>> \o bl>> : f \in {0, 2}, bl \in GpsBlockLists}
GpsTexts == {<<"Text", t>> : t \in GpsReplies}
GpsMessages ==
    GpsTexts \cup {<<"Binary", bin>> : bin \in GpsBinaries}
    \cup {<<"Ping">>, <<"Pong">>, <<"Close">>, <<"Frame">>}
GpsReads == {Ok(m) : m \in GpsMessages} \cup {Err("Read")}

GpsFrame ==
    UNCHANGED <<bundle, wrapS, wrapN, rewrap, posts, lastTs, now, panicked, txt, locv, sb, nb,
                built, reads>>

GpsInit ==
    /\ gps \in {[pc |-> "start", endpoint |-> e, rest |-> r, sent |-> <<>>, replies |-> <<>>,
                 log |-> <<>>, last |-> Err("None"), out |-> "running"] :
                    e \in GpsEndpoints, r \in BOOLEAN}
    /\ WrapIdle /\ ThreadIdle /\ TextIdle /\ LocIdle /\ BuildIdle
    /\ reads = NoReads

\* the program ends with Err from main
GpsBail(g) == [g EXCEPT !.pc = "exit", !.out = "error"]

\* client.register_application_endpoint(&endpoint)?
GpsRegister ==
    /\ gps.pc = "start"
    /\ \E ok \in BOOLEAN :
          LET g == [gps EXCEPT !.sent = Append(@, <<"register", gps.endpoint>>)]
          IN gps' = IF ok THEN [g EXCEPT !.pc = "registered"] ELSE GpsBail(g)
    /\ GpsFrame

\* let mut wscon = client.ws()?: the connect may fail, and ws_custom panics
\* when the websocket handshake fails
GpsWs ==
    /\ gps.pc = "registered"
    /\ \E r \in {"ok", "connect_fails", "handshake_fails"} :
          gps' = CASE r = "ok" -> [gps EXCEPT !.pc = "connected"]
                   [] r = "connect_fails" -> GpsBail(gps)
                   [] OTHER -> [gps EXCEPT !.pc = "exit", !.out = "panic"]
    /\ GpsFrame

\* wscon.write_text("/bundle")?
GpsWriteBundle ==
    /\ gps.pc = "connected"
    /\ \E ok \in BOOLEAN :
          LET g == [gps EXCEPT !.sent = Append(@, <<"text", T_bundle>>)]
          IN gps' = IF ok THEN [g EXCEPT !.pc = "mode_asked"] ELSE GpsBail(g)
    /\ GpsFrame

\* let msg = wscon.read_text()?; if msg.starts_with("200 tx mode: bundle")
\* ... else bail!
GpsReadMode ==
    /\ gps.pc = "mode_asked"
    /\ \E got \in GpsReads :
          LET msg == DtnWsConnection_read_text(got)
              g == [gps EXCEPT !.replies = Append(@, got)]
          IN gps' = IF IsOk(msg) /\ starts_with(msg[2], T_mode_bundle)
                    THEN [g EXCEPT !.pc = "mode_set"]
                    ELSE GpsBail(g)
    /\ GpsFrame

\* wscon.write_text(&format!("/subscribe {}", endpoint))?
GpsWriteSubscribe ==
    /\ gps.pc = "mode_set"
    /\ \E ok \in BOOLEAN :
          LET g == [gps EXCEPT !.sent = Append(@, <<"text", T_subscribe \o gps.endpoint>>)]
          IN gps' = IF ok THEN [g EXCEPT !.pc = "subscribe_asked"] ELSE GpsBail(g)
    /\ GpsFrame

\* let msg = wscon.read_text()?; if msg.starts_with("200 subscribed") ...
\* else bail!
GpsReadSubscribed ==
    /\ gps.pc = "subscribe_asked"
    /\ \E got \in GpsReads :
          LET msg == DtnWsConnection_read_text(got)
              g == [gps EXCEPT !.replies = Append(@, got)]
          IN gps' = IF IsOk(msg) /\ starts_with(msg[2], T_subscribed)
                    THEN [g EXCEPT !.pc = "loop"]
                    ELSE GpsBail(g)
    /\ GpsFrame

\* what one turn of the loop does with the message read: "go on", "break",
\* "error" (the ? on read_message) or "panic" (one of the two expects)
GpsTurn(got, rest, http) ==
    IF IsErr(got) THEN "error"
    ELSE LET msg == got[2]
         IN CASE msg[1] = "Text" -> "break"
              [] msg[1] = "Close" -> "break"
              [] msg[1] = "Binary" ->
                   LET bndl == Bundle_try_from(msg[2])
                   IN IF IsErr(bndl) THEN "panic"
                      ELSE IF is_administrative_record(bndl[2]) THEN "go on"
                      ELSE IF handle_incoming_bundle(bndl[2], rest, http) = "Panic"
                      THEN "panic"
                      ELSE "go on"
              [] OTHER -> "go on"

\* one turn of loop { let msg = wscon.read_message()?; match msg { ... } }
GpsLoop ==
    /\ gps.pc = "loop" /\ Len(gps.log) < MaxMsgs
    /\ \E got \in GpsReads, http \in HttpOutcomes :
          LET turn == GpsTurn(got, gps.rest, http)
              g == [gps EXCEPT !.log = Append(@, turn), !.last = got]
          IN gps' = CASE turn = "go on" -> g
                      [] turn = "break" -> [g EXCEPT !.pc = "exit", !.out = "ok"]
                      [] turn = "error" -> GpsBail(g)
                      [] OTHER -> [g EXCEPT !.pc = "exit", !.out = "panic"]
    /\ GpsFrame

GpsNext ==
    \/ GpsRegister \/ GpsWs \/ GpsWriteBundle \/ GpsReadMode \/ GpsWriteSubscribe
    \/ GpsReadSubscribed \/ GpsLoop

SpecGps == GpsInit /\ [][GpsNext]_vars


(***************************************************************************)
(* C29, C30: the handshake and the loop of the GPS receiver.               *)
(***************************************************************************)
\* the read gave a text message that begins with the prefix
Begins(got, prefix) ==
    /\ IsOk(got) /\ got[2][1] = "Text"
    /\ Len(got[2][2]) >= Len(prefix)
    /\ \A i \in 1..Len(prefix) : got[2][2][i] = prefix[i]

\* what the handshake sends when nothing stops it
Handshake ==
    << <<"register", gps.endpoint>>, <<"text", T_bundle>>,
       <<"text", T_subscribe \o gps.endpoint>> >>

\* C29: the receiver registers the endpoint, then sends "/bundle", and sends
\* "/subscribe <endpoint>" only after it has read a text reply that begins
\* with "200 tx mode: bundle"; it reads the first message of the loop only
\* after a text reply that begins with "200 subscribed"; any other reply at
\* either step ends the program with an error before a message of the loop
\* is read.
C29_HandshakeOrdered ==
    /\ Len(gps.sent) <= 3 /\ gps.sent = SubSeq(Handshake, 1, Len(gps.sent))
    /\ Len(gps.replies) <= 2
    /\ Len(gps.sent) = 3 => Len(gps.replies) >= 1 /\ Begins(gps.replies[1], T_mode_bundle)
    /\ (gps.pc = "loop" \/ Len(gps.log) > 0) =>
          /\ Len(gps.sent) = 3 /\ Len(gps.replies) = 2
          /\ Begins(gps.replies[2], T_subscribed)
    /\ (Len(gps.replies) >= 1 /\ ~Begins(gps.replies[1], T_mode_bundle)) =>
          /\ gps.pc = "exit" /\ gps.out = "error"
          /\ Len(gps.sent) = 2 /\ Len(gps.replies) = 1 /\ gps.log = <<>>
    /\ (Len(gps.replies) = 2 /\ ~Begins(gps.replies[2], T_subscribed)) =>
          gps.pc = "exit" /\ gps.out = "error" /\ gps.log = <<>>

\* after the replies "200 tx mode: bundle!" and "200 subscribed in" a message
\* of the loop has been read
C29_Witness ==
    /\ Len(gps.log) > 0
    /\ gps.replies = <<Ok(<<"Text", T_mode_bundle \o <<33>> >>),
                       Ok(<<"Text", T_subscribed \o <<32, 105, 110>> >>)>>
    /\ gps.sent = Handshake

\* the last read of the loop gave a binary message that decodes as a bundle
DecodableBinary ==
    /\ Len(gps.log) > 0 /\ IsOk(gps.last) /\ gps.last[2][1] = "Binary"
    /\ IsOk(Bundle_try_from(gps.last[2][2]))

\* C30: a binary message that decodes as a bundle never ends the loop.
C30_DecodableBinaryGoesOn == DecodableBinary => gps.pc = "loop"

\* the part of C30 that the code keeps: a Text or a Close message ends the
\* loop and the program ends well, a failed read ends the program with an
\* error, Ping, Pong and Frame do not end the loop, nor does a bundle that is
\* an administrative record or has no location block that can be read, and
\* among the bundles only one with a Position ends it, with a panic and only
\* when -r is given
C30_OtherMessages ==
    Len(gps.log) > 0 =>
        LET got == gps.last
        IN /\ IsErr(got) => gps.pc = "exit" /\ gps.out = "error"
           /\ IsOk(got) /\ got[2][1] \in {"Text", "Close"} => gps.pc = "exit" /\ gps.out = "ok"
           /\ IsOk(got) /\ got[2][1] \in {"Ping", "Pong", "Frame"} => gps.pc = "loop"
           /\ DecodableBinary =>
                LET bndl == Bundle_try_from(got[2][2])[2]
                    cblock == extension_block_by_type(bndl, LOCATION_BLOCK)
                IN /\ is_administrative_record(bndl) => gps.pc = "loop"
                   /\ ~IsSome(cblock) => gps.pc = "loop"
                   /\ IsSome(cblock) /\ ~get_location_data(Unwrap(cblock)).ok => gps.pc = "loop"
                   /\ gps.pc # "loop" =>
                        /\ gps.out = "panic" /\ gps.rest
                        /\ get_location_data(Unwrap(cblock)).val.variant = "Position"

====
